---- MODULE Spec2Model ----
(***************************************************************************)
(* Numeris-Task: an invoice-management backend.                            *)
(*                                                                         *)
(*   handler (gin)  ->  service (validation)  ->  repository (pgx/SQL)     *)
(*                                                                         *)
(* The model keeps the eight relational tables of the migration as sets    *)
(* of rows, one pending write set per open transaction, and one record per *)
(* request in flight.  Every SQL statement of the repository is one step,  *)
(* so that requests interleave statement by statement as they do on the    *)
(* connection pool.                                                        *)
(*                                                                         *)
(* Amounts are integers in thousandths of a currency unit (9000.00 is      *)
(* 9000000), so that the NUMERIC(p, 2) columns have something to round.    *)
(***************************************************************************)
EXTENDS Integers, Sequences, FiniteSets, TLC

(***************************************************************************)
(* Bounds of the model.                                                    *)
(***************************************************************************)
MaxUsers == 2
MaxCustomers == 1
MaxPaymentMethods == 2
MaxInvoices == 2
MaxItems == 2
MaxExtraActivities == 1
MaxClock == 1

Procs == {"r1", "r2"}

(***************************************************************************)
(* Identifiers.  uuid.New() draws a version-4 UUID; the model draws the    *)
(* least identifier nobody holds, from a pool per call site.               *)
(***************************************************************************)
NilUUID == 0

UserIDs == {100 + i : i \in 1..MaxUsers}
CustomerIDs == {200 + i : i \in 1..MaxCustomers}
PaymentMethodIDs == {300 + i : i \in 1..MaxPaymentMethods}
InvoiceIDs == {400 + i : i \in 1..MaxInvoices}
ItemIDs == {500 + i : i \in 1..(MaxInvoices * MaxItems)}
PaymentInfoIDs == {600 + i : i \in 1..MaxInvoices}
ActivityIDs == {700 + i : i \in 1..MaxInvoices}
AddedActivityIDs == {800 + i : i \in 1..MaxExtraActivities}

Min(S) == CHOOSE x \in S : \A y \in S : x <= y

\* The n least elements of S, in increasing order.
RECURSIVE LeastN(_, _)
LeastN(S, n) ==
    IF n = 0 THEN <<>>
    ELSE <<Min(S)>> \o LeastN(S \ {Min(S)}, n - 1)

SeqToSet(s) == {s[i] : i \in DOMAIN s}

(***************************************************************************)
(* Strings that carry an identifier.  A request carries identifiers as     *)
(* text; uuid.Parse turns well-formed text into the identifier and         *)
(* rejects the rest.  wf = FALSE are the malformed texts ("invalid-uuid",  *)
(* "", ...), told apart by their number.                                   *)
(***************************************************************************)
UUIDString(id) == [wf |-> TRUE, id |-> id]
BadUUID1 == [wf |-> FALSE, id |-> 1]
BadUUID2 == [wf |-> FALSE, id |-> 2]

ParseUUID(s) ==
    IF s.wf THEN [ok |-> TRUE, id |-> s.id]
    ELSE [ok |-> FALSE, id |-> NilUUID]

(***************************************************************************)
(* Errors.  NoError is Go's nil error.                                     *)
(***************************************************************************)
NoError == "<nil>"
ErrNoRows == "no rows in result set"
ErrStorage == "storage failure"
ErrUnique == "duplicate key value violates unique constraint"
ErrForeignKey == "violates foreign key constraint"
ErrCheck == "violates check constraint"
ErrNumericOverflow == "numeric field overflow"
ErrNullScan == "cannot scan NULL"
ErrNegativeLimit == "LIMIT must not be negative"
ErrNegativeOffset == "OFFSET must not be negative"
ErrPasswordTooLong == "failed to hash password: bcrypt: password length exceeds 72 bytes"

(***************************************************************************)
(* helpers.ValidateInvoiceStatus                                           *)
(***************************************************************************)
InvoiceStatusPaid == "paid"
InvoiceStatusOverDue == "overdue"
InvoiceStatusDraft == "draft"
InvoiceStatusPending == "pending"

\* Variant: the status is compared without regard to case and padding.
ValidateInvoiceStatusFolded(status) ==
    IF status \notin {"paid", "draft", "overdue", "pending", "PAID", "Paid",
                      " paid ", "paid ", "DRAFT"}
    THEN "invalid invoice status: " \o status
    ELSE NoError

\* if status != ... && status != ... { return fmt.Errorf("invalid invoice status: %s", status) }
ValidateInvoiceStatus(status) ==
    IF /\ status # InvoiceStatusPaid
       /\ status # InvoiceStatusDraft
       /\ status # InvoiceStatusOverDue
       /\ status # InvoiceStatusPending
    THEN "invalid invoice status: " \o status
    ELSE NoError

(***************************************************************************)
(* helpers.HashPassword.  A password is a sequence of bytes; bcrypt        *)
(* refuses more than 72 of them.                                           *)
(***************************************************************************)
BcryptMaxLen == 72

\* Variant: the password is cut to the bytes bcrypt takes.
HashPasswordTruncating(password) ==
    [hash |-> <<"$2a$10$">> \o SubSeq(password, 1, Min({Len(password), BcryptMaxLen})),
     err |-> NoError]

\* bcrypt.GenerateFromPassword([]byte(password), bcrypt.DefaultCost)
HashPassword(password) ==
    IF Len(password) > BcryptMaxLen
    THEN [hash |-> <<>>, err |-> ErrPasswordTooLong]
    ELSE [hash |-> <<"$2a$10$">> \o password, err |-> NoError]

(***************************************************************************)
(* time.Parse("2006-01-02", s).  A date string is a sequence of            *)
(* characters.                                                             *)
(***************************************************************************)
DigitChars == {"0", "1", "2", "3", "4", "5", "6", "7", "8", "9"}

DigitVal(c) ==
    CASE c = "0" -> 0 [] c = "1" -> 1 [] c = "2" -> 2 [] c = "3" -> 3
      [] c = "4" -> 4 [] c = "5" -> 5 [] c = "6" -> 6 [] c = "7" -> 7
      [] c = "8" -> 8 [] c = "9" -> 9

IsLeap(y) == (y % 4 = 0 /\ y % 100 # 0) \/ y % 400 = 0

DaysIn(m, y) ==
    IF m = 2 THEN (IF IsLeap(y) THEN 29 ELSE 28)
    ELSE IF m \in {4, 6, 9, 11} THEN 30 ELSE 31

ParseDate(s) ==
    IF \/ Len(s) # 10
       \/ s[5] # "-"
       \/ s[8] # "-"
       \/ \E i \in {1, 2, 3, 4, 6, 7, 9, 10} : s[i] \notin DigitChars
    THEN [ok |-> FALSE, date |-> <<0, 0, 0>>]
    ELSE LET y == 1000 * DigitVal(s[1]) + 100 * DigitVal(s[2])
                  + 10 * DigitVal(s[3]) + DigitVal(s[4])
             m == 10 * DigitVal(s[6]) + DigitVal(s[7])
             d == 10 * DigitVal(s[9]) + DigitVal(s[10])
         IN  IF m \in 1..12 /\ d \in 1..DaysIn(m, y)
             THEN [ok |-> TRUE, date |-> <<y, m, d>>]
             ELSE [ok |-> FALSE, date |-> <<0, 0, 0>>]

(***************************************************************************)
(* 32-bit integers.  Go's int32 arithmetic wraps; the product is computed  *)
(* byte by byte so that no intermediate value leaves the checker's range.  *)
(***************************************************************************)
Byte(x, k) ==
    CASE k = 0 -> x % 256
      [] k = 1 -> (x \div 256) % 256
      [] k = 2 -> (x \div 65536) % 256
      [] k = 3 -> (x \div 16777216) % 256

\* The value in [-2^31, 2^31) of the four bytes b0 (least) .. b3.
FromBytes(b0, b1, b2, b3) ==
    (IF b3 >= 128 THEN b3 - 256 ELSE b3) * 16777216 + b2 * 65536 + b1 * 256 + b0

Int32Sub(a, b) ==
    LET d0 == Byte(a, 0) - Byte(b, 0)
        c0 == IF d0 < 0 THEN 1 ELSE 0
        d1 == Byte(a, 1) - Byte(b, 1) - c0
        c1 == IF d1 < 0 THEN 1 ELSE 0
        d2 == Byte(a, 2) - Byte(b, 2) - c1
        c2 == IF d2 < 0 THEN 1 ELSE 0
        d3 == Byte(a, 3) - Byte(b, 3) - c2
    IN  FromBytes(d0 % 256, d1 % 256, d2 % 256, d3 % 256)

Int32Mul(a, b) ==
    LET s0 == Byte(a, 0) * Byte(b, 0)
        s1 == Byte(a, 0) * Byte(b, 1) + Byte(a, 1) * Byte(b, 0) + (s0 \div 256)
        s2 == Byte(a, 0) * Byte(b, 2) + Byte(a, 1) * Byte(b, 1)
              + Byte(a, 2) * Byte(b, 0) + (s1 \div 256)
        s3 == Byte(a, 0) * Byte(b, 3) + Byte(a, 1) * Byte(b, 2)
              + Byte(a, 2) * Byte(b, 1) + Byte(a, 3) * Byte(b, 0) + (s2 \div 256)
    IN  FromBytes(s0 % 256, s1 % 256, s2 % 256, s3 % 256)

\* Variant: pages counted from zero.
PageTimesLimit(page, limit) == Int32Mul(page, limit)

\* offset := (page - 1) * limit
PageOffset(page, limit) == Int32Mul(Int32Sub(page, 1), limit)

(***************************************************************************)
(* NUMERIC(p, 2) columns.  A value is stored rounded to two decimals       *)
(* (half away from zero); the insert fails when the rounded value needs    *)
(* more than p - 2 digits before the point.  x is in thousandths; the      *)
(* limit of NUMERIC(10, 2), 10^8, is beyond the checker's integers and the *)
(* amounts of the model stay below it.                                     *)
(***************************************************************************)
NumericRound2(x) ==
    IF x >= 0 THEN ((x + 5) \div 10) * 10
    ELSE 0 - (((0 - x) + 5) \div 10) * 10

\* NUMERIC(5, 2): |value| < 10^3.
FitsNumeric5(x) == NumericRound2(x) < 1000000 /\ NumericRound2(x) > 0 - 1000000

(***************************************************************************)
(* 64-bit integers.  An int64 is its four 16-bit limbs <<l1, l2, l3, l4>>, *)
(* l1 the least, in two's complement: Go's int64 arithmetic wraps, and the *)
(* 10-digit invoice numbers do not fit the checker's integers.             *)
(***************************************************************************)
Limb == 65536

I64Zero == <<0, 0, 0, 0>>
I64One == <<1, 0, 0, 0>>
MaxInt64 == <<65535, 65535, 65535, 32767>>
MinInt64 == <<0, 0, 0, 32768>>

\* a + b, wrapping
I64Add(a, b) ==
    LET s1 == a[1] + b[1]
        s2 == a[2] + b[2] + (s1 \div Limb)
        s3 == a[3] + b[3] + (s2 \div Limb)
        s4 == a[4] + b[4] + (s3 \div Limb)
    IN  <<s1 % Limb, s2 % Limb, s3 % Limb, s4 % Limb>>

\* -a, wrapping
I64Neg(a) ==
    I64Add(<<Limb - 1 - a[1], Limb - 1 - a[2], Limb - 1 - a[3], Limb - 1 - a[4]>>,
           I64One)

\* a - b, wrapping
I64Sub(a, b) == I64Add(a, I64Neg(b))

I64Negative(a) == a[4] >= 32768

\* a < b as unsigned numbers
U64Less(a, b) ==
    \E k \in 1..4 : a[k] < b[k] /\ \A j \in (k + 1)..4 : a[j] = b[j]

\* a <= b as signed numbers
I64LessEq(a, b) ==
    IF I64Negative(a) # I64Negative(b) THEN I64Negative(a)
    ELSE a = b \/ U64Less(a, b)

\* The int64 of a number the checker's integers hold.
I64Of(n) ==
    IF n >= 0 THEN <<n % Limb, n \div Limb, 0, 0>>
    ELSE I64Neg(<<(0 - n) % Limb, (0 - n) \div Limb, 0, 0>>)

\* a * 10 + d as unsigned numbers, wrapping; carry is what left the 64 bits.
U64Times10Plus(a, d) ==
    LET s1 == a[1] * 10 + d
        s2 == a[2] * 10 + (s1 \div Limb)
        s3 == a[3] * 10 + (s2 \div Limb)
        s4 == a[4] * 10 + (s3 \div Limb)
    IN  [u |-> <<s1 % Limb, s2 % Limb, s3 % Limb, s4 % Limb>>, carry |-> s4 \div Limb]

\* Quotient and remainder of the unsigned number u by 10.
U64DivMod10(u) ==
    LET t4 == u[4]
        t3 == (t4 % 10) * Limb + u[3]
        t2 == (t3 % 10) * Limb + u[2]
        t1 == (t2 % 10) * Limb + u[1]
    IN  [q |-> <<t1 \div 10, t2 \div 10, t3 \div 10, t4 \div 10>>, r |-> t1 % 10]

DigitChar(d) ==
    CASE d = 0 -> "0" [] d = 1 -> "1" [] d = 2 -> "2" [] d = 3 -> "3"
      [] d = 4 -> "4" [] d = 5 -> "5" [] d = 6 -> "6" [] d = 7 -> "7"
      [] d = 8 -> "8" [] d = 9 -> "9"

\* The decimal digits of the unsigned number u > 0, without leading zeros.
RECURSIVE U64Digits(_)
U64Digits(u) ==
    IF u = I64Zero THEN <<>>
    ELSE U64Digits(U64DivMod10(u).q) \o <<DigitChar(U64DivMod10(u).r)>>

\* strconv.FormatInt(a, 10): the characters of the string.
FormatInt(a) ==
    IF a = I64Zero THEN <<"0">>
    ELSE IF I64Negative(a) THEN <<"-">> \o U64Digits(I64Neg(a))
    ELSE U64Digits(a)

\* The Go string of a sequence of characters.
RECURSIVE String(_)
String(chars) ==
    IF chars = <<>> THEN "" ELSE chars[1] \o String(Tail(chars))

\* r.Int63n(n): panics when n <= 0, and returns some value of [0, n)
\* otherwise; the model draws the two ends.
Int63n(n) ==
    IF I64LessEq(n, I64Zero)
    THEN {[panic |-> TRUE, r |-> I64Zero]}
    ELSE {[panic |-> FALSE, r |-> I64Zero], [panic |-> FALSE, r |-> I64Sub(n, I64One)]}

\* helpers.RandomNumber: what a call can come to, the string returned or
\* the panic of Int63n.
\*   result := r.Int63n(max-min+1) + min
\*   return strconv.FormatInt(result, 10)
RandomNumber(min, max) ==
    {IF d.panic THEN [panic |-> TRUE, val |-> <<>>]
     ELSE [panic |-> FALSE, val |-> FormatInt(I64Add(d.r, min))] :
        d \in Int63n(I64Add(I64Sub(max, min), I64One))}

\* helpers.RandomNumber(1000000000, 9999999999), as the service calls it.
InvoiceNumberMin == I64Of(1000000000)
InvoiceNumberMax == U64Times10Plus(I64Of(999999999), 9).u
InvoiceNumbers ==
    {String(o.val) : o \in RandomNumber(InvoiceNumberMin, InvoiceNumberMax)}

(***************************************************************************)
(* The database: the eight tables of the migration, each a set of rows.    *)
(***************************************************************************)
EmptyDB ==
    [users |-> {}, customers |-> {}, user_payment_methods |-> {},
     invoices |-> {}, invoice_items |-> {}, payment_information |-> {},
     invoice_activities |-> {}, recent_activities |-> {}]

TableNames == DOMAIN EmptyDB

\* What a statement of a transaction sees: the committed rows and its own.
Merge(d, w) == [n \in TableNames |-> d[n] \cup w[n]]

NoTx == [open |-> FALSE, start |-> 0, writes |-> EmptyDB]

\* Primary keys in use in d.
KeysOf(d) ==
    {r.user_id : r \in d.users} \cup {r.customer_id : r \in d.customers}
    \cup {r.payment_method_id : r \in d.user_payment_methods}
    \cup {r.invoice_id : r \in d.invoices}
    \cup {r.item_id : r \in d.invoice_items}
    \cup {r.payment_info_id : r \in d.payment_information}
    \cup {r.activity_id : r \in d.invoice_activities}
    \cup {r.activity_id : r \in d.recent_activities}

VARIABLES
    db,         \* the committed rows
    tx,         \* tx[p]: the transaction request p holds open, and its writes
    now,        \* the latest CURRENT_TIMESTAMP handed out
    pc,         \* pc[p]: where request p stands
    req,        \* req[p]: the request as the service received it
    arg,        \* arg[p]: the arguments of the repository call under way
    loc,        \* loc[p]: the repository call's local variables
    ret,        \* ret[p]: what the service returned
    resp,       \* resp[p]: what the handler wrote to the HTTP response
    held,       \* held[p]: the identifiers uuid.New() drew for request p
    repoCalls,  \* repoCalls[p]: repository calls made for request p
    ledger      \* the invoice creations that returned an identifier

vars == <<db, tx, now, pc, req, arg, loc, ret, resp, held, repoCalls, ledger>>

NoReq == [op |-> "none"]
NoArg == [op |-> "none"]
NoLoc == [at |-> "none"]
NoRet == [id |-> NilUUID, err |-> NoError, val |-> <<>>]
NoResp == [code |-> 0, error |-> NoError]

\* Variant: the error is wrapped on its way up.
ResultWrapped(id, err, val) ==
    [id |-> id, err |-> IF err = NoError THEN err ELSE "service: " \o err,
     val |-> val]

\* return <the repository's results>
Result(id, err, val) == [id |-> id, err |-> err, val |-> val]

Init ==
    /\ db = EmptyDB
    /\ tx = [p \in Procs |-> NoTx]
    /\ now = 0
    /\ pc = [p \in Procs |-> "idle"]
    /\ req = [p \in Procs |-> NoReq]
    /\ arg = [p \in Procs |-> NoArg]
    /\ loc = [p \in Procs |-> NoLoc]
    /\ ret = [p \in Procs |-> NoRet]
    /\ resp = [p \in Procs |-> NoResp]
    /\ held = [p \in Procs |-> {}]
    /\ repoCalls = [p \in Procs |-> 0]
    /\ ledger = {}

\* Identifiers somebody holds: stored rows, pending rows, requests in flight.
UsedIDs ==
    KeysOf(db) \cup UNION {KeysOf(tx[p].writes) : p \in Procs}
    \cup UNION {held[p] : p \in Procs}

\* uuid.New(), n times, from the pool of a call site.
CanDraw(pool, n) == Cardinality(pool \ UsedIDs) >= n
NewUUIDs(pool, n) == LeastN(pool \ UsedIDs, n)
NewUUID(pool) == Min(pool \ UsedIDs)

\* CURRENT_TIMESTAMP: the clock has stood still since the last reading, or
\* has advanced.
Timestamps == {t \in {now, now + 1} : t <= MaxClock}

(***************************************************************************)
(* The statements of the repository, as the database executes them.        *)
(* Each ...Error operator gives the error the INSERT raises against the    *)
(* rows v the statement sees (NoError: the row goes in).                   *)
(***************************************************************************)
ValidStatuses ==
    {InvoiceStatusDraft, InvoiceStatusPending, InvoiceStatusPaid, InvoiceStatusOverDue}

UserRow(user, t) ==
    [user_id |-> user.UserID, username |-> user.Username, email |-> user.Email,
     password |-> user.Password, first_name |-> user.FirstName,
     last_name |-> user.LastName, phone_number |-> user.PhoneNumber,
     address |-> user.Address, created_at |-> t]

UserInsertError(v, row) ==
    IF \E r \in v.users : r.user_id = row.user_id \/ r.username = row.username
                          \/ r.email = row.email
    THEN ErrUnique ELSE NoError

CustomerRow(customer, t) ==
    [customer_id |-> customer.CustomerID, name |-> customer.Name,
     email |-> customer.Email, phone_number |-> customer.PhoneNumber,
     address |-> customer.Address, created_at |-> t]

CustomerInsertError(v, row) ==
    IF \E r \in v.customers : r.customer_id = row.customer_id
    THEN ErrUnique ELSE NoError

PaymentMethodRow(pm, t) ==
    [payment_method_id |-> pm.PaymentMethodID, user_id |-> pm.UserID,
     account_name |-> pm.AccountName, account_number |-> pm.AccountNumber,
     bank_name |-> pm.BankName, bank_address |-> pm.BankAddress,
     swift_code |-> pm.SwiftCode, created_at |-> t]

PaymentMethodInsertError(v, row) ==
    IF \E r \in v.user_payment_methods : r.payment_method_id = row.payment_method_id
    THEN ErrUnique
    ELSE IF ~ \E u \in v.users : u.user_id = row.user_id
    THEN ErrForeignKey ELSE NoError

\* query1 of CreateInvoice: the sender and the amounts come from invoice,
\* the customer from the customerID parameter.
InvoiceRow(invoice, customerID, t) ==
    [invoice_id |-> invoice.InvoiceID, invoice_number |-> invoice.InvoiceNumber,
     sender_id |-> invoice.SenderID, customer_id |-> customerID,
     issue_date |-> invoice.IssueDate, due_date |-> invoice.DueDate,
     total_amount |-> NumericRound2(invoice.TotalAmount),
     discount_percentage |-> NumericRound2(invoice.DiscountPercentage),
     discounted_amount |-> NumericRound2(invoice.DiscountedAmount),
     final_amount |-> NumericRound2(invoice.FinalAmount),
     status |-> invoice.Status, currency |-> invoice.Currency,
     notes |-> invoice.Notes, created_at |-> t, updated_at |-> t]

\* Variant: invoice_number carries no UNIQUE constraint.
InvoiceInsertErrorNumberFree(v, invoice, row) ==
    IF ~FitsNumeric5(invoice.DiscountPercentage) THEN ErrNumericOverflow
    ELSE IF row.status \notin ValidStatuses THEN ErrCheck
    ELSE IF \E r \in v.invoices : r.invoice_id = row.invoice_id
    THEN ErrUnique
    ELSE IF \/ ~ \E u \in v.users : u.user_id = row.sender_id
            \/ ~ \E c \in v.customers : c.customer_id = row.customer_id
    THEN ErrForeignKey ELSE NoError

InvoiceInsertError(v, invoice, row) ==
    IF ~FitsNumeric5(invoice.DiscountPercentage) THEN ErrNumericOverflow
    ELSE IF row.status \notin ValidStatuses THEN ErrCheck
    ELSE IF \E r \in v.invoices : r.invoice_id = row.invoice_id
                                  \/ r.invoice_number = row.invoice_number
    THEN ErrUnique
    ELSE IF \/ ~ \E u \in v.users : u.user_id = row.sender_id
            \/ ~ \E c \in v.customers : c.customer_id = row.customer_id
    THEN ErrForeignKey ELSE NoError

ItemRow(item, invoiceID, t) ==
    [item_id |-> item.ItemID, invoice_id |-> invoiceID, name |-> item.Name,
     description |-> item.Description, quantity |-> item.Quantity,
     unit_price |-> NumericRound2(item.UnitPrice),
     total_price |-> NumericRound2(item.TotalPrice), created_at |-> t]

ItemInsertError(v, row) ==
    IF \E r \in v.invoice_items : r.item_id = row.item_id THEN ErrUnique
    ELSE IF ~ \E i \in v.invoices : i.invoice_id = row.invoice_id
    THEN ErrForeignKey ELSE NoError

PaymentInfoRow(paymentInfo, invoiceID, t) ==
    [payment_info_id |-> paymentInfo.PaymentInfoID, invoice_id |-> invoiceID,
     payment_method_id |-> paymentInfo.PaymentMethodID, created_at |-> t]

\* Variant: payment_method_id carries no FOREIGN KEY.
PaymentInfoInsertErrorMethodFree(v, row) ==
    IF \E r \in v.payment_information : r.payment_info_id = row.payment_info_id
    THEN ErrUnique
    ELSE IF ~ \E i \in v.invoices : i.invoice_id = row.invoice_id
    THEN ErrForeignKey ELSE NoError

PaymentInfoInsertError(v, row) ==
    IF \E r \in v.payment_information : r.payment_info_id = row.payment_info_id
    THEN ErrUnique
    ELSE IF \/ ~ \E i \in v.invoices : i.invoice_id = row.invoice_id
            \/ ~ \E m \in v.user_payment_methods :
                    m.payment_method_id = row.payment_method_id
    THEN ErrForeignKey ELSE NoError

ActivityRow(activityID, invoiceID, userID, title, description, t) ==
    [activity_id |-> activityID, invoice_id |-> invoiceID, user_id |-> userID,
     title |-> title, description |-> description, created_at |-> t]

\* Variant: invoice_id carries no FOREIGN KEY.
ActivityInsertErrorInvoiceFree(v, row) ==
    IF \E r \in v.invoice_activities : r.activity_id = row.activity_id
    THEN ErrUnique
    ELSE IF ~ \E u \in v.users : u.user_id = row.user_id
    THEN ErrForeignKey ELSE NoError

ActivityInsertError(v, row) ==
    IF \E r \in v.invoice_activities : r.activity_id = row.activity_id
    THEN ErrUnique
    ELSE IF \/ ~ \E i \in v.invoices : i.invoice_id = row.invoice_id
            \/ ~ \E u \in v.users : u.user_id = row.user_id
    THEN ErrForeignKey ELSE NoError

\* Variant: the recent row repeats the title as its description.
RecentActivityRowTitled(activityID, userID, title, description, t) ==
    [activity_id |-> activityID, user_id |-> userID, title |-> title,
     description |-> title, created_at |-> t]

RecentActivityRow(activityID, userID, title, description, t) ==
    [activity_id |-> activityID, user_id |-> userID, title |-> title,
     description |-> description, created_at |-> t]

RecentActivityInsertError(v, row) ==
    IF \E r \in v.recent_activities : r.activity_id = row.activity_id
    THEN ErrUnique
    ELSE IF ~ \E u \in v.users : u.user_id = row.user_id
    THEN ErrForeignKey ELSE NoError

\* The title and description CreateInvoice logs.
CreationTitle == "Invoice Creation"
CreationDescription(invoice) == "Created invoice " \o invoice.InvoiceNumber

(***************************************************************************)
(* Transactions.  tx.Exec / tx.QueryRow add a row to the transaction's     *)
(* own writes, which no other connection sees; Commit publishes them in    *)
(* one step and Rollback drops them.  DBPool.QueryRow / DBPool.Query run   *)
(* on a connection of their own and see the committed rows only.           *)
(***************************************************************************)
\* Variant: the statements of a transaction write to the tables at once.
TxExecAutocommit(d, w, table, row) ==
    [db |-> [d EXCEPT ![table] = @ \cup {row}], writes |-> w]

TxExec(d, w, table, row) ==
    [db |-> d, writes |-> [w EXCEPT ![table] = @ \cup {row}]]

\* Variant: the INSERT replaces the rows of the table.
PoolExecReplacing(d, table, row) == [d EXCEPT ![table] = {row}]

\* Variant: an activity row is mirrored into recent_activities.
PoolExecMirrored(d, table, row) ==
    [d EXCEPT ![table] = @ \cup {row},
              !.recent_activities =
                 IF table = "invoice_activities"
                 THEN @ \cup {RecentActivityRow(row.activity_id, row.user_id,
                                                row.title, row.description,
                                                row.created_at)}
                 ELSE @]

PoolExec(d, table, row) == [d EXCEPT ![table] = @ \cup {row}]

\* Variant: Commit loses the line items.
CommitWithoutItems(d, w) == Merge(d, [w EXCEPT !.invoice_items = {}])

Commit(d, w) == Merge(d, w)

\* Variant: Rollback keeps what the transaction wrote.
RollbackKeeps(d, w) == Merge(d, w)

Rollback(d, w) == d

(***************************************************************************)
(* The handlers' responses.  Every handler answers a service error with    *)
(* http.StatusInternalServerError and the error's text, and a service      *)
(* result with the success code of its route.                              *)
(***************************************************************************)
StatusOK == 200
StatusCreated == 201
StatusBadRequest == 400
StatusInternalServerError == 500

CreateOps == {"CreateInvoice", "AddInvoiceActivity", "CreateUser",
              "AddPaymentMethod", "AddCustomer"}

SuccessCode(op) == IF op \in CreateOps THEN StatusCreated ELSE StatusOK

\* Variant: a service error is answered as a bad request.
RespondBadRequest(op, err) ==
    IF err # NoError
    THEN [code |-> StatusBadRequest, error |-> err]
    ELSE [code |-> SuccessCode(op), error |-> NoError]

\* if err != nil { ctx.JSON(http.StatusInternalServerError, ...); return }
\* ctx.JSON(<success code>, ...)
Respond(op, err) ==
    IF err # NoError
    THEN [code |-> StatusInternalServerError, error |-> err]
    ELSE [code |-> SuccessCode(op), error |-> NoError]

(***************************************************************************)
(* Requests.  A request is answered in one step when it is a single        *)
(* statement, and statement by statement otherwise; the answer stays in    *)
(* ret[p], and the response the handler makes of it in resp[p], until the  *)
(* caller takes it (Return).                                               *)
(***************************************************************************)
\* The route of request p: of the request that enters in this step, or of
\* the one under way.
Route(p) == IF pc[p] = "idle" THEN req'[p].op ELSE req[p].op

Answer(p, id, err, val) ==
    /\ pc' = [pc EXCEPT ![p] = "done"]
    /\ ret' = [ret EXCEPT ![p] = Result(id, err, val)]
    /\ resp' = [resp EXCEPT ![p] = Respond(Route(p), err)]

\* The service returns before it calls the repository.
Reject(p, err) ==
    /\ Answer(p, NilUUID, err, <<>>)
    /\ UNCHANGED <<db, tx, now, arg, loc, held, repoCalls, ledger>>

\* The service calls the repository method op with arguments a, having
\* drawn the identifiers ids.
CallRepo(p, a, ids) ==
    /\ arg' = [arg EXCEPT ![p] = a]
    /\ held' = [held EXCEPT ![p] = ids]
    /\ repoCalls' = [repoCalls EXCEPT ![p] = @ + 1]

\* A single INSERT ... RETURNING id on the pool: the row goes in and its
\* identifier comes back, or the constraint error does, or the connection
\* fails.
PoolInsert(p, table, row, id, err) ==
    \/ /\ err = NoError
       /\ db' = PoolExec(db, table, row)
       /\ now' = row.created_at
       /\ Answer(p, id, NoError, <<>>)
    \/ /\ err # NoError
       /\ Answer(p, NilUUID, err, <<>>)
       /\ UNCHANGED <<db, now>>
    \/ /\ Answer(p, NilUUID, ErrStorage, <<>>)
       /\ UNCHANGED <<db, now>>

(***************************************************************************)
(* userServiceImpl / userRepoImpl                                          *)
(***************************************************************************)
SvcCreateUser(p, data) ==
    /\ pc[p] = "idle"
    /\ req' = [req EXCEPT ![p] = data]
    /\ LET h == HashPassword(data.Password)
       IN  IF h.err # NoError
           THEN Reject(p, h.err)
           ELSE /\ CanDraw(UserIDs, 1)
                /\ LET user == [UserID |-> NewUUID(UserIDs),
                                Username |-> data.Username, Email |-> data.Email,
                                Password |-> h.hash, FirstName |-> data.FirstName,
                                LastName |-> data.LastName,
                                PhoneNumber |-> data.PhoneNumber,
                                Address |-> data.Address]
                   IN  /\ CallRepo(p, [op |-> "CreateUser", user |-> user],
                                   {user.UserID})
                       /\ \E t \in Timestamps :
                             PoolInsert(p, "users", UserRow(user, t), user.UserID,
                                        UserInsertError(db, UserRow(user, t)))
                       /\ UNCHANGED <<tx, loc, ledger>>

SvcAddCustomer(p, data) ==
    /\ pc[p] = "idle"
    /\ req' = [req EXCEPT ![p] = data]
    /\ CanDraw(CustomerIDs, 1)
    /\ LET customer == [CustomerID |-> NewUUID(CustomerIDs), Name |-> data.Name,
                        Email |-> data.Email, PhoneNumber |-> data.PhoneNumber,
                        Address |-> data.Address]
       IN  /\ CallRepo(p, [op |-> "AddCustomer", customer |-> customer],
                       {customer.CustomerID})
           /\ \E t \in Timestamps :
                 PoolInsert(p, "customers", CustomerRow(customer, t),
                            customer.CustomerID,
                            CustomerInsertError(db, CustomerRow(customer, t)))
           /\ UNCHANGED <<tx, loc, ledger>>

SvcAddPaymentMethod(p, data) ==
    /\ pc[p] = "idle"
    /\ req' = [req EXCEPT ![p] = data]
    /\ LET userID == ParseUUID(data.UserID)
       IN  IF ~userID.ok
           THEN Reject(p, "invalid invoice id")
           ELSE /\ CanDraw(PaymentMethodIDs, 1)
                /\ LET pm == [PaymentMethodID |-> NewUUID(PaymentMethodIDs),
                              UserID |-> userID.id,
                              AccountName |-> data.AccountName,
                              AccountNumber |-> data.AccountNumber,
                              BankName |-> data.BankName,
                              BankAddress |-> data.BankAddress,
                              SwiftCode |-> data.SwiftCode]
                   IN  /\ CallRepo(p, [op |-> "AddPaymentMethod", paymentMethod |-> pm],
                                   {pm.PaymentMethodID})
                       /\ \E t \in Timestamps :
                             PoolInsert(p, "user_payment_methods",
                                        PaymentMethodRow(pm, t), pm.PaymentMethodID,
                                        PaymentMethodInsertError(db, PaymentMethodRow(pm, t)))
                       /\ UNCHANGED <<tx, loc, ledger>>

(***************************************************************************)
(* invoiceServiceImpl.CreateInvoice: the checks, in the order the code     *)
(* makes them, and the error of the first that fails.                      *)
(***************************************************************************)
\* Variant: the due date is not checked.
CreateInvoiceErrorNoDueDate(data) ==
    IF ~ParseUUID(data.Invoice.SenderID).ok THEN "invalid sender id"
    ELSE IF ~ParseUUID(data.CustomerID).ok THEN "invalid customer id"
    ELSE IF ValidateInvoiceStatus(data.Invoice.Status) # NoError
    THEN ValidateInvoiceStatus(data.Invoice.Status)
    ELSE IF ~ParseDate(data.Invoice.IssueDate).ok
    THEN "issue date has invalid date format"
    ELSE IF ~ParseUUID(data.PaymentMethodID).ok THEN "invalid payment method id"
    ELSE NoError

\* Variant: the status is checked before the identifiers.
CreateInvoiceErrorStatusFirst(data) ==
    IF ValidateInvoiceStatus(data.Invoice.Status) # NoError
    THEN ValidateInvoiceStatus(data.Invoice.Status)
    ELSE IF ~ParseUUID(data.Invoice.SenderID).ok THEN "invalid sender id"
    ELSE IF ~ParseUUID(data.CustomerID).ok THEN "invalid customer id"
    ELSE IF ~ParseDate(data.Invoice.IssueDate).ok
    THEN "issue date has invalid date format"
    ELSE IF ~ParseDate(data.Invoice.DueDate).ok
    THEN "due date has invalid date format"
    ELSE IF ~ParseUUID(data.PaymentMethodID).ok THEN "invalid payment method id"
    ELSE NoError

CreateInvoiceError(data) ==
    IF ~ParseUUID(data.Invoice.SenderID).ok THEN "invalid sender id"
    ELSE IF ~ParseUUID(data.CustomerID).ok THEN "invalid customer id"
    ELSE IF ValidateInvoiceStatus(data.Invoice.Status) # NoError
    THEN ValidateInvoiceStatus(data.Invoice.Status)
    ELSE IF ~ParseDate(data.Invoice.IssueDate).ok
    THEN "issue date has invalid date format"
    ELSE IF ~ParseDate(data.Invoice.DueDate).ok
    THEN "due date has invalid date format"
    ELSE IF ~ParseUUID(data.PaymentMethodID).ok THEN "invalid payment method id"
    ELSE NoError

\* The models.Invoice, items and payment information the service hands to
\* the repository, with the identifiers ids = <<invoice, payment info,
\* item 1, ...>> and the invoice number drawn.
CreateInvoiceArgs(data, number, invoiceID, paymentInfoID, itemIDs) ==
    [op |-> "CreateInvoice",
     invoice |->
        [InvoiceID |-> invoiceID, InvoiceNumber |-> number,
         SenderID |-> ParseUUID(data.Invoice.SenderID).id,
         CustomerID |-> ParseUUID(data.CustomerID).id,
         IssueDate |-> ParseDate(data.Invoice.IssueDate).date,
         DueDate |-> ParseDate(data.Invoice.DueDate).date,
         TotalAmount |-> data.Invoice.TotalAmount,
         DiscountPercentage |-> data.Invoice.DiscountPercentage,
         DiscountedAmount |-> data.Invoice.DiscountedAmount,
         FinalAmount |-> data.Invoice.FinalAmount,
         Status |-> data.Invoice.Status, Currency |-> data.Invoice.Currency,
         Notes |-> data.Invoice.Notes],
     items |->
        [k \in 1..Len(data.InvoiceItems) |->
            [ItemID |-> itemIDs[k], InvoiceID |-> invoiceID,
             Name |-> data.InvoiceItems[k].Name,
             Description |-> data.InvoiceItems[k].Description,
             Quantity |-> data.InvoiceItems[k].Quantity,
             UnitPrice |-> data.InvoiceItems[k].UnitPrice,
             TotalPrice |-> data.InvoiceItems[k].TotalPrice]],
     customerID |-> ParseUUID(data.CustomerID).id,
     paymentInfo |->
        [PaymentInfoID |-> paymentInfoID, InvoiceID |-> invoiceID,
         PaymentMethodID |-> ParseUUID(data.PaymentMethodID).id]]

\* Where a CreateInvoice of the repository can stand.
TxSteps ==
    {"ci_begin", "ci_invoice", "ci_items", "ci_payment", "ci_activity",
     "ci_recent", "ci_commit"}

SvcCreateInvoice(p, data) ==
    /\ pc[p] = "idle"
    /\ req' = [req EXCEPT ![p] = data]
    /\ IF CreateInvoiceError(data) # NoError
       THEN Reject(p, CreateInvoiceError(data))
       ELSE /\ CanDraw(InvoiceIDs, 1)
            /\ CanDraw(PaymentInfoIDs, 1)
            /\ CanDraw(ItemIDs, Len(data.InvoiceItems))
            /\ \E number \in InvoiceNumbers :
                  LET invoiceID == NewUUID(InvoiceIDs)
                      paymentInfoID == NewUUID(PaymentInfoIDs)
                      itemIDs == NewUUIDs(ItemIDs, Len(data.InvoiceItems))
                  IN  CallRepo(p, CreateInvoiceArgs(data, number, invoiceID,
                                                    paymentInfoID, itemIDs),
                               {invoiceID, paymentInfoID} \cup SeqToSet(itemIDs))
            /\ pc' = [pc EXCEPT ![p] = "ci_begin"]
            /\ loc' = [loc EXCEPT ![p] =
                         [at |-> "ci_begin", i |-> 1, activityID |-> NilUUID,
                          during |-> \E q \in Procs \ {p} : pc[q] \in TxSteps]]
            /\ UNCHANGED <<db, tx, now, ret, resp, ledger>>

(***************************************************************************)
(* invoiceRepoImpl.CreateInvoice, statement by statement.                  *)
(***************************************************************************)
\* return uuid.Nil, err: the deferred tx.Rollback drops the writes.
Abort(p, err) ==
    /\ db' = Rollback(db, tx[p].writes)
    /\ tx' = [tx EXCEPT ![p] = NoTx]
    /\ Answer(p, NilUUID, err, <<>>)

\* One INSERT of the transaction: on success the next statement, on a
\* constraint error the rollback.
TxStatement(p, table, row, err, nextpc, nextloc) ==
    \/ /\ err = NoError
       /\ LET e == TxExec(db, tx[p].writes, table, row)
          IN  /\ db' = e.db
              /\ tx' = [tx EXCEPT ![p].writes = e.writes]
       /\ pc' = [pc EXCEPT ![p] = nextpc]
       /\ loc' = [loc EXCEPT ![p] = nextloc]
       /\ UNCHANGED <<ret, resp>>
    \/ /\ err # NoError
       /\ Abort(p, err)
       /\ UNCHANGED loc

\* Another open transaction has written a row with the same key: the
\* INSERT waits for it to end.
WaitsForKey(p, row) ==
    \E q \in Procs \ {p} :
        /\ tx[q].open
        /\ \E r \in tx[q].writes.invoices :
              r.invoice_id = row.invoice_id \/ r.invoice_number = row.invoice_number

RepoBegin(p) ==
    /\ pc[p] = "ci_begin"
    /\ \E t \in Timestamps :
          /\ tx' = [tx EXCEPT ![p] = [open |-> TRUE, start |-> t, writes |-> EmptyDB]]
          /\ now' = t
    /\ pc' = [pc EXCEPT ![p] = "ci_invoice"]
    /\ loc' = [loc EXCEPT ![p].at = "ci_invoice"]
    /\ UNCHANGED <<db, req, arg, ret, resp, held, repoCalls, ledger>>

RepoInsertInvoice(p) ==
    /\ pc[p] = "ci_invoice"
    /\ LET a == arg[p]
           row == InvoiceRow(a.invoice, a.customerID, tx[p].start)
           next == IF Len(a.items) = 0 THEN "ci_payment" ELSE "ci_items"
       IN  /\ ~WaitsForKey(p, row)
           /\ TxStatement(p, "invoices", row,
                          InvoiceInsertError(Merge(db, tx[p].writes), a.invoice, row),
                          next, [loc[p] EXCEPT !.at = next])
    /\ UNCHANGED <<now, req, arg, held, repoCalls, ledger>>

\* for _, item := range items
RepoInsertItem(p) ==
    /\ pc[p] = "ci_items"
    /\ LET a == arg[p]
           i == loc[p].i
           row == ItemRow(a.items[i], a.invoice.InvoiceID, tx[p].start)
           next == IF i = Len(a.items) THEN "ci_payment" ELSE "ci_items"
       IN  TxStatement(p, "invoice_items", row,
                       ItemInsertError(Merge(db, tx[p].writes), row),
                       next, [loc[p] EXCEPT !.at = next, !.i = i + 1])
    /\ UNCHANGED <<now, req, arg, held, repoCalls, ledger>>

RepoInsertPaymentInfo(p) ==
    /\ pc[p] = "ci_payment"
    /\ LET a == arg[p]
           row == PaymentInfoRow(a.paymentInfo, a.invoice.InvoiceID, tx[p].start)
       IN  TxStatement(p, "payment_information", row,
                       PaymentInfoInsertError(Merge(db, tx[p].writes), row),
                       "ci_activity", [loc[p] EXCEPT !.at = "ci_activity"])
    /\ UNCHANGED <<now, req, arg, held, repoCalls, ledger>>

\* activityID := uuid.New(), then the invoice_activities row
RepoInsertActivity(p) ==
    /\ pc[p] = "ci_activity"
    /\ CanDraw(ActivityIDs, 1)
    /\ LET a == arg[p]
           activityID == NewUUID(ActivityIDs)
           row == ActivityRow(activityID, a.invoice.InvoiceID, a.invoice.SenderID,
                              CreationTitle, CreationDescription(a.invoice),
                              tx[p].start)
       IN  /\ TxStatement(p, "invoice_activities", row,
                          ActivityInsertError(Merge(db, tx[p].writes), row),
                          "ci_recent",
                          [loc[p] EXCEPT !.at = "ci_recent", !.activityID = activityID])
           /\ held' = [held EXCEPT ![p] = @ \cup {activityID}]
    /\ UNCHANGED <<now, req, arg, repoCalls, ledger>>

RepoInsertRecentActivity(p) ==
    /\ pc[p] = "ci_recent"
    /\ LET a == arg[p]
           row == RecentActivityRow(loc[p].activityID, a.invoice.SenderID,
                                    CreationTitle, CreationDescription(a.invoice),
                                    tx[p].start)
       IN  TxStatement(p, "recent_activities", row,
                       RecentActivityInsertError(Merge(db, tx[p].writes), row),
                       "ci_commit", [loc[p] EXCEPT !.at = "ci_commit"])
    /\ UNCHANGED <<now, req, arg, held, repoCalls, ledger>>

\* Variant: the nil identifier comes back.
ReturnedNil(a) == NilUUID

\* return invoice.InvoiceID, nil
ReturnedInvoiceID(a) == a.invoice.InvoiceID

RepoCommit(p) ==
    /\ pc[p] = "ci_commit"
    /\ db' = Commit(db, tx[p].writes)
    /\ tx' = [tx EXCEPT ![p] = NoTx]
    /\ Answer(p, ReturnedInvoiceID(arg[p]), NoError, <<>>)
    /\ ledger' = ledger \cup {[id |-> ReturnedInvoiceID(arg[p]), data |-> req[p]]}
    /\ UNCHANGED <<now, req, arg, loc, held, repoCalls>>

\* Begin, a statement or Commit fails for a reason of the connection's.
RepoCreateInvoiceFails(p) ==
    /\ pc[p] \in TxSteps
    /\ Abort(p, ErrStorage)
    /\ UNCHANGED <<now, req, arg, loc, held, repoCalls, ledger>>

(***************************************************************************)
(* Query results.  Scan copies the columns of a row into the fields of a   *)
(* Go struct; ORDER BY created_at leaves rows of equal created_at in any   *)
(* order; LIMIT and OFFSET cut the page out.                               *)
(***************************************************************************)
ScanInvoice(r) ==
    [InvoiceID |-> r.invoice_id, InvoiceNumber |-> r.invoice_number,
     SenderID |-> r.sender_id, CustomerID |-> r.customer_id,
     IssueDate |-> r.issue_date, DueDate |-> r.due_date,
     TotalAmount |-> r.total_amount, DiscountPercentage |-> r.discount_percentage,
     DiscountedAmount |-> r.discounted_amount, FinalAmount |-> r.final_amount,
     Status |-> r.status, Currency |-> r.currency, Notes |-> r.notes,
     CreatedAt |-> r.created_at, UpdatedAt |-> r.updated_at]

ScanItem(r) ==
    [ItemID |-> r.item_id, InvoiceID |-> r.invoice_id, Name |-> r.name,
     Description |-> r.description, Quantity |-> r.quantity,
     UnitPrice |-> r.unit_price, TotalPrice |-> r.total_price]

ScanActivity(r) ==
    [ActivityID |-> r.activity_id, InvoiceID |-> r.invoice_id, UserID |-> r.user_id,
     Title |-> r.title, Description |-> r.description, CreatedAt |-> r.created_at]

ScanRecentActivity(r) ==
    [ActivityID |-> r.activity_id, UserID |-> r.user_id, Title |-> r.title,
     Description |-> r.description, CreatedAt |-> r.created_at]

ScanPaymentMethod(r) ==
    [PaymentMethodID |-> r.payment_method_id, UserID |-> r.user_id,
     AccountName |-> r.account_name, AccountNumber |-> r.account_number,
     BankName |-> r.bank_name, BankAddress |-> r.bank_address,
     SwiftCode |-> r.swift_code]

Perms(S) ==
    {f \in [1..Cardinality(S) -> S] : \A x \in S : \E i \in DOMAIN f : f[i] = x}

\* ORDER BY created_at
OrderByCreatedAt(S) ==
    {f \in Perms(S) :
        \A i, j \in DOMAIN f : i < j => f[i].created_at <= f[j].created_at}

\* Variant: the ORDER BY clause is lost.
Unordered(S) == Perms(S)

\* ORDER BY created_at DESC
OrderByCreatedAtDesc(S) ==
    {f \in Perms(S) :
        \A i, j \in DOMAIN f : i < j => f[i].created_at >= f[j].created_at}

\* LIMIT limit OFFSET offset, both >= 0
LimitOffset(rows, limit, offset) ==
    SubSeq(rows, offset + 1,
           IF offset + limit < Len(rows) THEN offset + limit ELSE Len(rows))

(***************************************************************************)
(* invoiceRepoImpl.GetInvoiceDetails: three statements on the pool.        *)
(***************************************************************************)
\* The rows of the first query: invoices JOIN users JOIN customers
\* LEFT JOIN payment_information LEFT JOIN user_payment_methods.
\* pm = <<>> stands for the NULL columns of an unmatched LEFT JOIN.
InvoiceJoin(d, invoiceID) ==
    UNION {
      UNION {
        UNION {
          LET pms == {m \in d.user_payment_methods :
                        \E pi \in d.payment_information :
                            /\ pi.invoice_id = i.invoice_id
                            /\ pi.payment_method_id = m.payment_method_id}
          IN  IF pms = {}
              THEN {[i |-> i, s |-> s, c |-> c, pm |-> <<>>]}
              ELSE {[i |-> i, s |-> s, c |-> c, pm |-> <<m>>] : m \in pms}
          : c \in {c \in d.customers : c.customer_id = i.customer_id}}
        : s \in {s \in d.users : s.user_id = i.sender_id}}
      : i \in {i \in d.invoices : i.invoice_id = invoiceID}}

\* Variant: the customer's columns land in the sender's fields.
ScanDetailsCustomerAsSender(j) ==
    [Invoice |-> ScanInvoice(j.i),
     SenderName |-> j.c.name, SenderEmail |-> j.c.email,
     SenderPhoneNumber |-> j.c.phone_number, SenderAddress |-> j.c.address,
     CustomerName |-> j.c.name, CustomerEmail |-> j.c.email,
     CustomerPhoneNumber |-> j.c.phone_number,
     PaymentInformation |-> ScanPaymentMethod(j.pm[1]),
     Items |-> {}, Activities |-> <<>>]

\* Scan of the joined row into models.InvoiceDetails.
ScanDetails(j) ==
    [Invoice |-> ScanInvoice(j.i),
     SenderName |-> j.s.first_name \o " " \o j.s.last_name,
     SenderEmail |-> j.s.email, SenderPhoneNumber |-> j.s.phone_number,
     SenderAddress |-> j.s.address, CustomerName |-> j.c.name,
     CustomerEmail |-> j.c.email, CustomerPhoneNumber |-> j.c.phone_number,
     PaymentInformation |-> ScanPaymentMethod(j.pm[1]),
     Items |-> {}, Activities |-> <<>>]

SvcGetInvoiceDetails(p, invoiceID) ==
    /\ pc[p] = "idle"
    /\ req' = [req EXCEPT ![p] = [op |-> "GetInvoiceDetails", InvoiceID |-> invoiceID]]
    /\ CallRepo(p, [op |-> "GetInvoiceDetails", invoiceID |-> invoiceID], {})
    /\ pc' = [pc EXCEPT ![p] = "gd_invoice"]
    /\ loc' = [loc EXCEPT ![p] =
                 [at |-> "gd_invoice",
                  during |-> \E q \in Procs \ {p} :
                                /\ pc[q] \in TxSteps
                                /\ arg[q].invoice.InvoiceID = invoiceID]]
    /\ UNCHANGED <<db, tx, now, ret, resp, ledger>>

RepoGetInvoice(p) ==
    /\ pc[p] = "gd_invoice"
    /\ LET rows == InvoiceJoin(db, arg[p].invoiceID)
       IN  \/ /\ rows = {}
              /\ Answer(p, NilUUID, ErrNoRows, <<>>)
              /\ UNCHANGED loc
           \/ \E j \in rows :
                 IF j.pm = <<>>
                 THEN /\ Answer(p, NilUUID, ErrNullScan, <<>>)
                      /\ UNCHANGED loc
                 ELSE /\ pc' = [pc EXCEPT ![p] = "gd_items"]
                      /\ loc' = [loc EXCEPT ![p] =
                                   [at |-> "gd_items", during |-> loc[p].during,
                                    details |-> ScanDetails(j)]]
                      /\ UNCHANGED <<ret, resp>>
    /\ UNCHANGED <<db, tx, now, req, arg, held, repoCalls, ledger>>

RepoGetItems(p) ==
    /\ pc[p] = "gd_items"
    /\ LET rows == {r \in db.invoice_items : r.invoice_id = arg[p].invoiceID}
       IN  loc' = [loc EXCEPT ![p].at = "gd_activities",
                              ![p].details.Items = {ScanItem(r) : r \in rows}]
    /\ pc' = [pc EXCEPT ![p] = "gd_activities"]
    /\ UNCHANGED <<db, tx, now, req, arg, ret, resp, held, repoCalls, ledger>>

RepoGetActivities(p) ==
    /\ pc[p] = "gd_activities"
    /\ LET rows == {r \in db.invoice_activities : r.invoice_id = arg[p].invoiceID}
       IN  \E order \in OrderByCreatedAt(rows) :
              Answer(p, NilUUID, NoError,
                     [loc[p].details EXCEPT
                        !.Activities = [k \in DOMAIN order |-> ScanActivity(order[k])]])
    /\ UNCHANGED <<db, tx, now, req, arg, loc, held, repoCalls, ledger>>

\* One of the three statements fails for a reason of the connection's.
RepoGetInvoiceDetailsFails(p) ==
    /\ pc[p] \in {"gd_invoice", "gd_items", "gd_activities"}
    /\ Answer(p, NilUUID, ErrStorage, <<>>)
    /\ UNCHANGED <<db, tx, now, req, arg, loc, held, repoCalls, ledger>>

(***************************************************************************)
(* invoiceServiceImpl.AddInvoiceActivity / invoiceRepoImpl.AddInvoiceActivity *)
(***************************************************************************)
AddInvoiceActivityError(data) ==
    IF ~ParseUUID(data.InvoiceID).ok THEN "invalid invoice id"
    ELSE IF ~ParseUUID(data.UserID).ok THEN "invalid user id"
    ELSE NoError

SvcAddInvoiceActivity(p, data) ==
    /\ pc[p] = "idle"
    /\ req' = [req EXCEPT ![p] = data]
    /\ IF AddInvoiceActivityError(data) # NoError
       THEN Reject(p, AddInvoiceActivityError(data))
       ELSE /\ CanDraw(AddedActivityIDs, 1)
            /\ LET activity == [ActivityID |-> NewUUID(AddedActivityIDs),
                                InvoiceID |-> ParseUUID(data.InvoiceID).id,
                                UserID |-> ParseUUID(data.UserID).id,
                                Title |-> data.Title,
                                Description |-> data.Description]
               IN  /\ CallRepo(p, [op |-> "AddInvoiceActivity", activity |-> activity],
                               {activity.ActivityID})
                   /\ \E t \in Timestamps :
                         LET row == ActivityRow(activity.ActivityID, activity.InvoiceID,
                                                activity.UserID, activity.Title,
                                                activity.Description, t)
                         IN  PoolInsert(p, "invoice_activities", row,
                                        activity.ActivityID,
                                        ActivityInsertError(db, row))
                   /\ UNCHANGED <<tx, loc, ledger>>

(***************************************************************************)
(* GetTotalByStatus                                                        *)
(***************************************************************************)
RECURSIVE SumFinalAmount(_)
SumFinalAmount(S) ==
    IF S = {} THEN 0
    ELSE LET r == CHOOSE x \in S : TRUE
         IN  r.final_amount + SumFinalAmount(S \ {r})

\* Variant: the WHERE clause is lost.
TotalOfAllStatuses(d, status) ==
    [totalAmount |-> SumFinalAmount(d.invoices), count |-> Cardinality(d.invoices)]

\* SELECT COUNT(*), COALESCE(SUM(final_amount), 0) FROM invoices WHERE status = $1
TotalByStatus(d, status) ==
    LET S == {i \in d.invoices : i.status = status}
    IN  [totalAmount |-> SumFinalAmount(S), count |-> Cardinality(S)]

SvcGetTotalByStatus(p, status) ==
    /\ pc[p] = "idle"
    /\ req' = [req EXCEPT ![p] = [op |-> "GetTotalByStatus", Status |-> status]]
    /\ CallRepo(p, [op |-> "GetTotalByStatus", status |-> status], {})
    /\ \/ Answer(p, NilUUID, NoError, TotalByStatus(db, status))
       \/ Answer(p, NilUUID, ErrStorage, [totalAmount |-> 0, count |-> 0])
    /\ UNCHANGED <<db, tx, now, loc, ledger>>

(***************************************************************************)
(* The paginated reads.                                                    *)
(***************************************************************************)
\* A SELECT ... ORDER BY created_at DESC LIMIT limit OFFSET offset over the
\* rows that passed the WHERE clause, each row scanned into a struct of
\* the Go type named.
ScanAs(type, r) ==
    CASE type = "models.Invoice" -> ScanInvoice(r)
      [] type = "models.RecentActivity" -> ScanRecentActivity(r)
      [] type = "models.InvoiceActivity" -> ScanActivity(r)

PagedQuery(p, rows, limit, offset, type) ==
    \/ /\ offset < 0
       /\ Answer(p, NilUUID, ErrNegativeOffset, <<>>)
    \/ /\ offset >= 0
       /\ limit < 0
       /\ Answer(p, NilUUID, ErrNegativeLimit, <<>>)
    \/ /\ offset >= 0
       /\ limit >= 0
       /\ \E order \in OrderByCreatedAtDesc(rows) :
             LET page == LimitOffset(order, limit, offset)
             IN  Answer(p, NilUUID, NoError, [k \in DOMAIN page |-> ScanAs(type, page[k])])
    \/ Answer(p, NilUUID, ErrStorage, <<>>)

SvcGetRecentInvoices(p, senderID, page, limit) ==
    /\ pc[p] = "idle"
    /\ req' = [req EXCEPT ![p] = [op |-> "GetRecentInvoices", SenderID |-> senderID,
                                  Page |-> page, Limit |-> limit]]
    /\ LET offset == PageOffset(page, limit)
       IN  /\ CallRepo(p, [op |-> "GetRecentInvoices", senderID |-> senderID,
                           limit |-> limit, offset |-> offset], {})
           /\ PagedQuery(p, {r \in db.invoices : r.sender_id = senderID},
                         limit, offset, "models.Invoice")
    /\ UNCHANGED <<db, tx, now, loc, ledger>>

SvcGetRecentActivities(p, userID, page, limit) ==
    /\ pc[p] = "idle"
    /\ req' = [req EXCEPT ![p] = [op |-> "GetRecentActivities", UserID |-> userID,
                                  Page |-> page, Limit |-> limit]]
    /\ LET offset == PageOffset(page, limit)
       IN  /\ CallRepo(p, [op |-> "GetRecentActivities", userID |-> userID,
                           limit |-> limit, offset |-> offset], {})
           /\ PagedQuery(p, {r \in db.recent_activities : r.user_id = userID},
                         limit, offset, "models.RecentActivity")
    /\ UNCHANGED <<db, tx, now, loc, ledger>>

\* WHERE invoice_id = $2, whoever recorded the activity.
ActivitiesOfAnyUser(userID, invoiceID) ==
    {r \in db.invoice_activities : r.invoice_id = invoiceID}

\* WHERE user_id = $1 AND invoice_id = $2.
ActivitiesOf(userID, invoiceID) ==
    {r \in db.invoice_activities : r.user_id = userID /\ r.invoice_id = invoiceID}

SvcGetInvoiceActivities(p, userID, invoiceID, page, limit) ==
    /\ pc[p] = "idle"
    /\ req' = [req EXCEPT ![p] = [op |-> "GetInvoiceActivities", UserID |-> userID,
                                  InvoiceID |-> invoiceID,
                                  Page |-> page, Limit |-> limit]]
    /\ LET offset == PageOffset(page, limit)
       IN  /\ CallRepo(p, [op |-> "GetInvoiceActivities", userID |-> userID,
                           invoiceID |-> invoiceID,
                           limit |-> limit, offset |-> offset], {})
           /\ PagedQuery(p, ActivitiesOf(userID, invoiceID),
                         limit, offset, "models.InvoiceActivity")
    /\ UNCHANGED <<db, tx, now, loc, ledger>>

\* The caller has the answer; the request's record is dropped.
Return(p) ==
    /\ pc[p] = "done"
    /\ pc' = [pc EXCEPT ![p] = "idle"]
    /\ req' = [req EXCEPT ![p] = NoReq]
    /\ arg' = [arg EXCEPT ![p] = NoArg]
    /\ loc' = [loc EXCEPT ![p] = NoLoc]
    /\ ret' = [ret EXCEPT ![p] = NoRet]
    /\ resp' = [resp EXCEPT ![p] = NoResp]
    /\ held' = [held EXCEPT ![p] = {}]
    /\ repoCalls' = [repoCalls EXCEPT ![p] = 0]
    /\ UNCHANGED <<db, tx, now, ledger>>

(***************************************************************************)
(* Requests of the clients.                                                *)
(***************************************************************************)
Chars(str) ==
    CASE str = "2024-01-15" -> <<"2", "0", "2", "4", "-", "0", "1", "-", "1", "5">>
      [] str = "2024-02-15" -> <<"2", "0", "2", "4", "-", "0", "2", "-", "1", "5">>
      [] str = "2024-02-30" -> <<"2", "0", "2", "4", "-", "0", "2", "-", "3", "0">>
      [] str = "15/01/2024" -> <<"1", "5", "/", "0", "1", "/", "2", "0", "2", "4">>
      [] str = "secret" -> <<"s", "e", "c", "r", "e", "t">>
      [] str = "" -> <<>>
      [] str = "abc" -> <<"a", "b", "c">>
      [] str = "0" -> <<"0">>
      [] str = "2" -> <<"2">>
      [] str = "-1" -> <<"-", "1">>
      [] str = "+1" -> <<"+", "1">>
      [] str = "1.5" -> <<"1", ".", "5">>
      [] str = "2147483647" -> <<"2", "1", "4", "7", "4", "8", "3", "6", "4", "7">>
      [] str = "2147483648" -> <<"2", "1", "4", "7", "4", "8", "3", "6", "4", "8">>
      [] str = "-2147483648" ->
            <<"-", "2", "1", "4", "7", "4", "8", "3", "6", "4", "8">>

Ada ==
    [op |-> "CreateUser", Username |-> "ada", Email |-> "ada@numeris.io",
     Password |-> Chars("secret"), FirstName |-> "Ada", LastName |-> "Obi",
     PhoneNumber |-> "0801", Address |-> "1 Marina"]

Ben ==
    [op |-> "CreateUser", Username |-> "ben", Email |-> "ben@numeris.io",
     Password |-> Chars("secret"), FirstName |-> "Ben", LastName |-> "Eze",
     PhoneNumber |-> "0802", Address |-> "2 Broad St"]

Acme ==
    [op |-> "AddCustomer", Name |-> "Acme Ltd", Email |-> "pay@acme.io",
     PhoneNumber |-> "0700", Address |-> "3 Allen Ave"]

PaymentMethodOf(userID) ==
    [op |-> "AddPaymentMethod", UserID |-> userID, AccountName |-> "Ada Obi",
     AccountNumber |-> "0123456789", BankName |-> "First Bank",
     BankAddress |-> "4 Bank Rd", SwiftCode |-> "FBNINGLA"]

Item(name, unitPrice, quantity) ==
    [Name |-> name, Description |-> name, Quantity |-> quantity,
     UnitPrice |-> unitPrice, TotalPrice |-> unitPrice * quantity]

InvoiceRequest(sender, customer, method, status, issue, due, final, items) ==
    [op |-> "CreateInvoice",
     Invoice |-> [SenderID |-> sender, IssueDate |-> Chars(issue),
                  DueDate |-> Chars(due), TotalAmount |-> final,
                  DiscountPercentage |-> 0, DiscountedAmount |-> 0,
                  FinalAmount |-> final, Status |-> status, Currency |-> "USD",
                  Notes |-> "thanks"],
     CustomerID |-> customer, PaymentMethodID |-> method, InvoiceItems |-> items]

ActivityRequest(invoiceID, userID) ==
    [op |-> "AddInvoiceActivity", InvoiceID |-> invoiceID, UserID |-> userID,
     Title |-> "Payment Reminder", Description |-> "Reminder sent"]

Design == Item("design", 4500000, 2)
Hosting == Item("hosting", 335, 3)

\* The requests of the sequential clients: well-formed ones against
\* whatever the database holds, and one malformed of each kind.
UserRequests == {Ada, Ben}
CustomerRequests == {Acme}
PaymentMethodRequests ==
    {PaymentMethodOf(UUIDString(101)), PaymentMethodOf(BadUUID1)}
InvoiceRequests ==
    {InvoiceRequest(UUIDString(101), UUIDString(201), UUIDString(301),
                    "draft", "2024-01-15", "2024-02-15", 9000000, <<Design>>),
     InvoiceRequest(UUIDString(101), UUIDString(201), UUIDString(301),
                    "paid", "2024-01-15", "2024-02-15", 1005, <<Hosting, Design>>),
     InvoiceRequest(UUIDString(101), UUIDString(201), UUIDString(301),
                    "draft", "2024-01-15", "2024-02-15", 2500000, <<>>),
     InvoiceRequest(UUIDString(101), UUIDString(201), UUIDString(301),
                    "PAID", "2024-01-15", "2024-02-15", 9000000, <<Design>>)}
ActivityRequests ==
    {ActivityRequest(UUIDString(401), UUIDString(101)),
     ActivityRequest(UUIDString(401), BadUUID1)}
Statuses == ValidStatuses
Pages == {1, 2}
Limits == {1, 10}

(***************************************************************************)
(* Spec: one client, one request at a time, from the empty database.       *)
(***************************************************************************)
RepoStep(p) ==
    \/ RepoBegin(p)
    \/ RepoInsertInvoice(p)
    \/ RepoInsertItem(p)
    \/ RepoInsertPaymentInfo(p)
    \/ RepoInsertActivity(p)
    \/ RepoInsertRecentActivity(p)
    \/ RepoCommit(p)
    \/ RepoCreateInvoiceFails(p)
    \/ RepoGetInvoice(p)
    \/ RepoGetItems(p)
    \/ RepoGetActivities(p)
    \/ RepoGetInvoiceDetailsFails(p)
    \/ Return(p)

Next ==
    \E p \in {"r1"} :
        \/ \E data \in UserRequests : SvcCreateUser(p, data)
        \/ \E data \in CustomerRequests : SvcAddCustomer(p, data)
        \/ \E data \in PaymentMethodRequests : SvcAddPaymentMethod(p, data)
        \/ \E data \in InvoiceRequests : SvcCreateInvoice(p, data)
        \/ \E data \in ActivityRequests : SvcAddInvoiceActivity(p, data)
        \/ \E id \in InvoiceIDs : SvcGetInvoiceDetails(p, id)
        \/ \E status \in Statuses : SvcGetTotalByStatus(p, status)
        \/ \E page \in Pages, limit \in Limits :
              \/ SvcGetRecentInvoices(p, 101, page, limit)
              \/ SvcGetRecentActivities(p, 101, page, limit)
              \/ SvcGetInvoiceActivities(p, 101, 401, page, limit)
        \/ RepoStep(p)

Spec == Init /\ [][Next]_vars

(***************************************************************************)
(* SpecConc: two requests at a time, against a database that already holds *)
(* the sender Ada, the customer Acme and Ada's payment method, as the      *)
(* repository's test suite sets it up.                                     *)
(***************************************************************************)
SeedDB ==
    [EmptyDB EXCEPT
       !.users =
          {UserRow([UserID |-> 101, Username |-> Ada.Username, Email |-> Ada.Email,
                    Password |-> HashPassword(Ada.Password).hash,
                    FirstName |-> Ada.FirstName, LastName |-> Ada.LastName,
                    PhoneNumber |-> Ada.PhoneNumber, Address |-> Ada.Address], 0)},
       !.customers =
          {CustomerRow([CustomerID |-> 201, Name |-> Acme.Name, Email |-> Acme.Email,
                        PhoneNumber |-> Acme.PhoneNumber,
                        Address |-> Acme.Address], 0)},
       !.user_payment_methods =
          {PaymentMethodRow(
              [PaymentMethodID |-> 301, UserID |-> 101,
               AccountName |-> PaymentMethodOf(UUIDString(101)).AccountName,
               AccountNumber |-> PaymentMethodOf(UUIDString(101)).AccountNumber,
               BankName |-> PaymentMethodOf(UUIDString(101)).BankName,
               BankAddress |-> PaymentMethodOf(UUIDString(101)).BankAddress,
               SwiftCode |-> PaymentMethodOf(UUIDString(101)).SwiftCode], 0)}]

InitSeeded ==
    /\ db = SeedDB
    /\ tx = [p \in Procs |-> NoTx]
    /\ now = 0
    /\ pc = [p \in Procs |-> "idle"]
    /\ req = [p \in Procs |-> NoReq]
    /\ arg = [p \in Procs |-> NoArg]
    /\ loc = [p \in Procs |-> NoLoc]
    /\ ret = [p \in Procs |-> NoRet]
    /\ resp = [p \in Procs |-> NoResp]
    /\ held = [p \in Procs |-> {}]
    /\ repoCalls = [p \in Procs |-> 0]
    /\ ledger = {}

\* Valid requests of one sender for one customer; the second names a
\* payment method nobody has registered.
ConcInvoiceRequests ==
    {InvoiceRequest(UUIDString(101), UUIDString(201), UUIDString(301),
                    "paid", "2024-01-15", "2024-02-15", 1005, <<Hosting, Design>>),
     InvoiceRequest(UUIDString(101), UUIDString(201), UUIDString(302),
                    "draft", "2024-01-15", "2024-02-15", 2500000, <<Design, Hosting>>)}

NextConc ==
    \E p \in Procs :
        \/ \E data \in ConcInvoiceRequests : SvcCreateInvoice(p, data)
        \/ \E id \in InvoiceIDs : SvcGetInvoiceDetails(p, id)
        \/ RepoStep(p)

SpecConc == InitSeeded /\ [][NextConc]_vars

(***************************************************************************)
(* SpecSvc: one client against the same database, sending every            *)
(* combination of well-formed and malformed fields.                        *)
(***************************************************************************)
SvcInvoiceRequests ==
    {InvoiceRequest(sender, customer, method, status, issue, due, 9000000, <<Design>>) :
        sender \in {UUIDString(101), BadUUID1},
        customer \in {UUIDString(201), BadUUID2},
        method \in {UUIDString(301), BadUUID1},
        status \in {"draft", "PAID", ""},
        issue \in {"2024-01-15", "15/01/2024"},
        due \in {"2024-02-15", "2024-02-30"}}

SvcActivityRequests ==
    {ActivityRequest(invoiceID, userID) :
        invoiceID \in {UUIDString(401), BadUUID1},
        userID \in {UUIDString(101), BadUUID2}}

SvcPages == {0, 1, 2, 10}
SvcLimits == {0, 1, 10}

NextSvc ==
    \E p \in {"r1"} :
        \/ \E data \in SvcInvoiceRequests : SvcCreateInvoice(p, data)
        \/ \E data \in SvcActivityRequests : SvcAddInvoiceActivity(p, data)
        \/ \E data \in PaymentMethodRequests : SvcAddPaymentMethod(p, data)
        \/ \E id \in InvoiceIDs : SvcGetInvoiceDetails(p, id)
        \/ \E page \in SvcPages, limit \in SvcLimits :
              \/ SvcGetRecentInvoices(p, 101, page, limit)
              \/ SvcGetRecentActivities(p, 101, page, limit)
              \/ SvcGetInvoiceActivities(p, 101, 401, page, limit)
        \/ RepoStep(p)

SpecSvc == InitSeeded /\ [][NextSvc]_vars

(***************************************************************************)
(* The HTTP handlers (handlerImpl).  A handler binds the body or parses    *)
(* the path, answers http.StatusBadRequest when that fails, and otherwise  *)
(* calls the service and answers with what it returns.                     *)
(***************************************************************************)
\* The empty text where an identifier is expected.
EmptyUUIDString == [wf |-> FALSE, id |-> 0]

\* A body that is not JSON.
InvalidJSON(op) == [op |-> op, raw |-> "invalid json"]

ErrInvalidCharacter == "invalid character 'i' looking for beginning of value"
ErrRequired == "failed on the 'required' tag"

\* binding:"required" on the fields of a request: the field holds its zero
\* value.
RequiredMissing(body) ==
    CASE body.op = "CreateInvoice" ->
            \/ body.Invoice.SenderID = EmptyUUIDString
            \/ body.Invoice.IssueDate = <<>>
            \/ body.Invoice.DueDate = <<>>
            \/ body.Invoice.TotalAmount = 0
            \/ body.Invoice.DiscountPercentage = 0
            \/ body.Invoice.DiscountedAmount = 0
            \/ body.Invoice.FinalAmount = 0
            \/ body.Invoice.Status = ""
            \/ body.Invoice.Currency = ""
            \/ body.Invoice.Notes = ""
            \/ body.CustomerID = EmptyUUIDString
            \/ body.PaymentMethodID = EmptyUUIDString
      [] body.op = "AddInvoiceActivity" ->
            \/ body.InvoiceID = EmptyUUIDString
            \/ body.UserID = EmptyUUIDString
            \/ body.Title = ""
            \/ body.Description = ""
      [] body.op = "CreateUser" ->
            \/ body.Username = ""
            \/ body.Email = ""
            \/ body.Password = <<>>
            \/ body.FirstName = ""
            \/ body.LastName = ""
      [] body.op = "AddPaymentMethod" ->
            \/ body.UserID = EmptyUUIDString
            \/ body.AccountName = ""
            \/ body.AccountNumber = ""
            \/ body.BankName = ""
            \/ body.BankAddress = ""
            \/ body.SwiftCode = ""
      [] body.op = "AddCustomer" ->
            \/ body.Name = ""
            \/ body.Email = ""
            \/ body.PhoneNumber = ""
            \/ body.Address = ""

\* ctx.ShouldBind(&req)
ShouldBind(body) ==
    IF "raw" \in DOMAIN body THEN ErrInvalidCharacter
    ELSE IF RequiredMissing(body) THEN ErrRequired
    ELSE NoError

\* ctx.JSON(http.StatusBadRequest, ...); return: the service is not called.
\* The request is kept as it came: the body, or the texts of the path.
BadRequest(p, data, msg) ==
    /\ pc[p] = "idle"
    /\ req' = [req EXCEPT ![p] = data]
    /\ pc' = [pc EXCEPT ![p] = "done"]
    /\ resp' = [resp EXCEPT ![p] = [code |-> StatusBadRequest, error |-> msg]]
    /\ UNCHANGED <<db, tx, now, arg, loc, ret, held, repoCalls, ledger>>

(***************************************************************************)
(* strconv.ParseInt(s, 10, 32) and getPaginationParams.  The digits are    *)
(* accumulated as a negative number, which has room for -2^31.             *)
(***************************************************************************)
MinInt32 == -2147483647 - 1

\* The digits d[1..k] as a negative number; 1 when they do not fit.
RECURSIVE NegValue(_, _)
NegValue(d, k) ==
    IF k = 0 THEN 0
    ELSE LET a == NegValue(d, k - 1)
             v == DigitVal(d[k])
         IN  IF a = 1 THEN 1
             ELSE IF a > -214748364 \/ (a = -214748364 /\ v <= 8)
                  THEN a * 10 - v
                  ELSE 1

ParseInt32(s) ==
    LET signed == Len(s) > 0 /\ s[1] \in {"+", "-"}
        neg == Len(s) > 0 /\ s[1] = "-"
        d == IF signed THEN Tail(s) ELSE s
    IN  IF d = <<>> \/ \E k \in DOMAIN d : d[k] \notin DigitChars
        THEN [ok |-> FALSE, n |-> 0]
        ELSE LET a == NegValue(d, Len(d))
             IN  IF a = 1 \/ (~neg /\ a = MinInt32)
                 THEN [ok |-> FALSE, n |-> 0]
                 ELSE [ok |-> TRUE, n |-> IF neg THEN a ELSE -a]

\* A query parameter: absent from the URL, or present with a text.
Absent == [present |-> FALSE, value |-> <<>>]
Param(str) == [present |-> TRUE, value |-> Chars(str)]

\* ctx.DefaultQuery(key, defaultValue)
DefaultQuery(param, defaultValue) ==
    IF param.present THEN param.value ELSE defaultValue

\* Variant: a limit below one is replaced by the default.
getPaginationParamsClamped(query) ==
    LET limit64 == ParseInt32(DefaultQuery(query.limit, <<"1", "0">>))
        page64 == ParseInt32(DefaultQuery(query.page, <<"1">>))
    IN  [limit |-> IF limit64.ok /\ limit64.n >= 1 THEN limit64.n ELSE 10,
         page |-> IF page64.ok THEN page64.n ELSE 1]

getPaginationParams(query) ==
    LET limit64 == ParseInt32(DefaultQuery(query.limit, <<"1", "0">>))
        page64 == ParseInt32(DefaultQuery(query.page, <<"1">>))
    IN  [limit |-> IF limit64.ok THEN limit64.n ELSE 10,
         page |-> IF page64.ok THEN page64.n ELSE 1]

(***************************************************************************)
(* The handlers.                                                           *)
(***************************************************************************)
HandlerCreateInvoice(p, body) ==
    IF ShouldBind(body) # NoError
    THEN BadRequest(p, body, ShouldBind(body))
    ELSE SvcCreateInvoice(p, body)

HandlerGetInvoiceDetails(p, invoiceID) ==
    IF ~ParseUUID(invoiceID).ok
    THEN BadRequest(p, [op |-> "GetInvoiceDetails", path |-> <<invoiceID>>],
                    "Invalid invoice ID")
    ELSE SvcGetInvoiceDetails(p, ParseUUID(invoiceID).id)

HandlerAddInvoiceActivity(p, body) ==
    IF ShouldBind(body) # NoError
    THEN BadRequest(p, body, ShouldBind(body))
    ELSE SvcAddInvoiceActivity(p, body)

\* Variant: the status of the path goes to the service unchecked.
HandlerGetTotalByStatusUnchecked(p, status) == SvcGetTotalByStatus(p, status)

HandlerGetTotalByStatus(p, status) ==
    IF ValidateInvoiceStatus(status) # NoError
    THEN BadRequest(p, [op |-> "GetTotalByStatus", path |-> <<status>>],
                    ValidateInvoiceStatus(status))
    ELSE SvcGetTotalByStatus(p, status)

HandlerGetRecentInvoices(p, senderID, query) ==
    IF ~ParseUUID(senderID).ok
    THEN BadRequest(p, [op |-> "GetRecentInvoices", path |-> <<senderID>>],
                    "Invalid sender ID")
    ELSE SvcGetRecentInvoices(p, ParseUUID(senderID).id,
                              getPaginationParams(query).page,
                              getPaginationParams(query).limit)

HandlerGetRecentActivities(p, userID, query) ==
    IF ~ParseUUID(userID).ok
    THEN BadRequest(p, [op |-> "GetRecentActivities", path |-> <<userID>>],
                    "Invalid user ID")
    ELSE SvcGetRecentActivities(p, ParseUUID(userID).id,
                                getPaginationParams(query).page,
                                getPaginationParams(query).limit)

HandlerGetInvoiceActivities(p, invoiceID, userID, query) ==
    IF ~ParseUUID(userID).ok
    THEN BadRequest(p, [op |-> "GetInvoiceActivities", path |-> <<invoiceID, userID>>],
                    "Invalid user ID")
    ELSE IF ~ParseUUID(invoiceID).ok
    THEN BadRequest(p, [op |-> "GetInvoiceActivities", path |-> <<invoiceID, userID>>],
                    "Invalid invoice ID")
    ELSE SvcGetInvoiceActivities(p, ParseUUID(userID).id, ParseUUID(invoiceID).id,
                                 getPaginationParams(query).page,
                                 getPaginationParams(query).limit)

HandlerCreateUser(p, body) ==
    IF ShouldBind(body) # NoError
    THEN BadRequest(p, body, ShouldBind(body))
    ELSE SvcCreateUser(p, body)

HandlerAddPaymentMethod(p, body) ==
    IF ShouldBind(body) # NoError
    THEN BadRequest(p, body, ShouldBind(body))
    ELSE SvcAddPaymentMethod(p, body)

HandlerAddCustomer(p, body) ==
    IF ShouldBind(body) # NoError
    THEN BadRequest(p, body, ShouldBind(body))
    ELSE SvcAddCustomer(p, body)

(***************************************************************************)
(* SpecHTTP: one client of the HTTP API against the seeded database, with  *)
(* well-formed requests, requests the handler turns away and requests the  *)
(* service turns away.                                                     *)
(***************************************************************************)
\* A password one byte longer than bcrypt takes.
LongPassword == [k \in 1..(BcryptMaxLen + 1) |-> "x"]

Discounted(body) ==
    [body EXCEPT !.Invoice.DiscountPercentage = 10000,
                 !.Invoice.DiscountedAmount = 1000000,
                 !.Invoice.TotalAmount = 10000000]

HTTPInvoiceRequests ==
    {Discounted(InvoiceRequest(sender, UUIDString(201), UUIDString(301), status,
                               issue, "2024-02-15", 9000000, <<Design>>)) :
        sender \in {UUIDString(101), BadUUID1, EmptyUUIDString},
        status \in {"draft", "PAID"},
        issue \in {"2024-01-15", "15/01/2024"}}
    \cup {InvoiceRequest(UUIDString(101), UUIDString(201), UUIDString(301), "draft",
                         "2024-01-15", "2024-02-15", 9000000, <<Design>>),
          InvalidJSON("CreateInvoice")}

HTTPUserRequests ==
    {Ben, [Ben EXCEPT !.Password = LongPassword], [Ben EXCEPT !.Password = <<>>],
     [Ben EXCEPT !.Password = SubSeq(LongPassword, 1, BcryptMaxLen)],
     [Ben EXCEPT !.Email = Ada.Email]}

HTTPCustomerRequests == {Acme, [Acme EXCEPT !.Name = ""]}

HTTPPaymentMethodRequests ==
    {PaymentMethodOf(userID) : userID \in {UUIDString(101), BadUUID1, EmptyUUIDString}}

HTTPActivityRequests ==
    {ActivityRequest(invoiceID, UUIDString(101)) :
        invoiceID \in {UUIDString(401), BadUUID1, EmptyUUIDString}}

HTTPIdentifiers == {UUIDString(101), UUIDString(401), BadUUID1}
HTTPStatuses == {"draft", "paid", "PAID"}

HTTPQueries ==
    {[limit |-> Absent, page |-> Absent], [limit |-> Param("-1"), page |-> Param("2")]}

NextHTTP ==
    \E p \in {"r1"} :
        \/ \E body \in HTTPInvoiceRequests : HandlerCreateInvoice(p, body)
        \/ \E invoiceID \in HTTPIdentifiers : HandlerGetInvoiceDetails(p, invoiceID)
        \/ \E body \in HTTPActivityRequests : HandlerAddInvoiceActivity(p, body)
        \/ \E status \in HTTPStatuses : HandlerGetTotalByStatus(p, status)
        \/ \E senderID \in HTTPIdentifiers, query \in HTTPQueries :
              HandlerGetRecentInvoices(p, senderID, query)
        \/ \E userID \in HTTPIdentifiers, query \in HTTPQueries :
              HandlerGetRecentActivities(p, userID, query)
        \/ \E invoiceID \in HTTPIdentifiers, userID \in HTTPIdentifiers,
              query \in HTTPQueries :
              HandlerGetInvoiceActivities(p, invoiceID, userID, query)
        \/ \E body \in HTTPUserRequests : HandlerCreateUser(p, body)
        \/ \E body \in HTTPPaymentMethodRequests : HandlerAddPaymentMethod(p, body)
        \/ \E body \in HTTPCustomerRequests : HandlerAddCustomer(p, body)
        \/ RepoStep(p)

SpecHTTP == InitSeeded /\ [][NextHTTP]_vars

(***************************************************************************)
(* SpecList: one client of the three list routes and of the routes that    *)
(* create and read back an invoice, with every combination of absent,      *)
(* unparseable, zero, negative and positive limit and page.                *)
(***************************************************************************)
ListLimits == {Absent} \cup {Param(str) : str \in {"abc", "0", "-1", "2", "2147483648"}}
ListPages ==
    {Absent} \cup {Param(str) : str \in {"", "0", "2", "-2147483648", "2147483647"}}
ListQueries == {[limit |-> limit, page |-> page] : limit \in ListLimits, page \in ListPages}

ListInvoiceRequests ==
    {Discounted(InvoiceRequest(UUIDString(101), UUIDString(201), UUIDString(301),
                               "draft", "2024-01-15", "2024-02-15", 9000000,
                               <<Design>>))}

ListActivityRequests == {ActivityRequest(UUIDString(401), UUIDString(101))}

\* The path parameters of the list routes: the seeded user and the first
\* invoice.
ListUserIDs == {UUIDString(101)}
ListInvoiceIDs == {UUIDString(401)}

NextList ==
    \E p \in {"r1"} :
        \/ \E body \in ListInvoiceRequests : HandlerCreateInvoice(p, body)
        \/ \E invoiceID \in HTTPIdentifiers : HandlerGetInvoiceDetails(p, invoiceID)
        \/ \E body \in ListActivityRequests : HandlerAddInvoiceActivity(p, body)
        \/ \E query \in ListQueries, userID \in ListUserIDs :
              \/ HandlerGetRecentInvoices(p, userID, query)
              \/ HandlerGetRecentActivities(p, userID, query)
              \/ \E invoiceID \in ListInvoiceIDs :
                    HandlerGetInvoiceActivities(p, invoiceID, userID, query)
        \/ RepoStep(p)

SpecList == InitSeeded /\ [][NextList]_vars

(***************************************************************************)
(* SpecLegacy: one client against a database that holds, besides the       *)
(* seeded rows, an invoice written without a payment_information row.  The *)
(* schema allows such a row (payment_information refers to invoices, not   *)
(* the other way round); the repository's CreateInvoice never leaves one.  *)
(***************************************************************************)
LegacyDB ==
    [SeedDB EXCEPT
       !.invoices =
          {InvoiceRow(CreateInvoiceArgs(CHOOSE body \in ListInvoiceRequests : TRUE,
                                        "1000000001", 401, 601, <<501>>).invoice,
                      201, 0)}]

InitLegacy ==
    /\ db = LegacyDB
    /\ tx = [p \in Procs |-> NoTx]
    /\ now = 0
    /\ pc = [p \in Procs |-> "idle"]
    /\ req = [p \in Procs |-> NoReq]
    /\ arg = [p \in Procs |-> NoArg]
    /\ loc = [p \in Procs |-> NoLoc]
    /\ ret = [p \in Procs |-> NoRet]
    /\ resp = [p \in Procs |-> NoResp]
    /\ held = [p \in Procs |-> {}]
    /\ repoCalls = [p \in Procs |-> 0]
    /\ ledger = {}

\* The identifiers the routes are asked about, and that of an invoice that
\* was never written.
LegacyIdentifiers == HTTPIdentifiers \cup {UUIDString(402)}

NextLegacy ==
    \E p \in {"r1"} :
        \/ \E body \in ListInvoiceRequests : HandlerCreateInvoice(p, body)
        \/ \E invoiceID \in LegacyIdentifiers : HandlerGetInvoiceDetails(p, invoiceID)
        \/ \E body \in HTTPActivityRequests : HandlerAddInvoiceActivity(p, body)
        \/ RepoStep(p)

SpecLegacy == InitLegacy /\ [][NextLegacy]_vars

(***************************************************************************)
(* SpecHelpers: the functions of package helpers called on their own, as   *)
(* the package's tests call them.                                          *)
(***************************************************************************)
\* A function of the package returns val and err to its caller.
HelperReturns(p, call, err, val) ==
    /\ pc[p] = "idle"
    /\ req' = [req EXCEPT ![p] = call]
    /\ pc' = [pc EXCEPT ![p] = "done"]
    /\ ret' = [ret EXCEPT ![p] = Result(NilUUID, err, val)]
    /\ UNCHANGED <<db, tx, now, arg, loc, resp, held, repoCalls, ledger>>

HelperValidateInvoiceStatus(p, status) ==
    /\ pc[p] = "idle"
    /\ HelperReturns(p, [op |-> "ValidateInvoiceStatus", Status |-> status],
                     ValidateInvoiceStatus(status), <<>>)

HelperHashPassword(p, password) ==
    /\ pc[p] = "idle"
    /\ HelperReturns(p, [op |-> "HashPassword", Password |-> password],
                     HashPassword(password).err, HashPassword(password).hash)

\* A panic that nobody recovers reaches the caller in place of a result.
PanicInt63n == "panic: invalid argument to Int63n"

HelperRandomNumber(p, min, max) ==
    /\ pc[p] = "idle"
    /\ \E o \in RandomNumber(min, max) :
          HelperReturns(p, [op |-> "RandomNumber", Min |-> min, Max |-> max],
                        IF o.panic THEN PanicInt63n ELSE NoError, o.val)

\* Ranges with min <= max: those of the package's tests (1..100, 42..42,
\* -100..-1, the invoice numbers), ranges around zero and ranges that reach
\* the ends of int64.
HelperRanges ==
    {<<I64Of(1), I64Of(100)>>, <<I64Of(42), I64Of(42)>>,
     <<I64Of(-100), I64Of(-1)>>, <<InvoiceNumberMin, InvoiceNumberMax>>,
     <<I64Of(-5), I64Of(5)>>, <<I64Zero, I64Zero>>,
     <<I64One, MaxInt64>>, <<MinInt64, MinInt64>>, <<MaxInt64, MaxInt64>>,
     <<MinInt64, I64Of(-2)>>, <<I64Zero, MaxInt64>>, <<MinInt64, MaxInt64>>,
     <<I64Of(-1), MaxInt64>>}

HelperStatuses ==
    {"paid", "draft", "overdue", "pending", "", "PAID", "Paid", " paid ", "paid ",
     " paid", "DRAFT", "over due", "invalid_status", "cancelled"}

\* Passwords of every length up to twice what bcrypt takes.
HelperPasswords == {[k \in 1..n |-> "a"] : n \in 0..(2 * BcryptMaxLen)}

NextHelpers ==
    \E p \in {"r1"} :
        \/ \E status \in HelperStatuses : HelperValidateInvoiceStatus(p, status)
        \/ \E password \in HelperPasswords : HelperHashPassword(p, password)
        \/ \E range \in HelperRanges : HelperRandomNumber(p, range[1], range[2])
        \/ Return(p)

SpecHelpers == InitSeeded /\ [][NextHelpers]_vars

(***************************************************************************)
(* SpecOwn: one client against the seeded database who registers a second  *)
(* user, payment methods for either user, and invoices of either sender    *)
(* with either payment method.                                             *)
(***************************************************************************)
OwnPaymentMethodRequests ==
    {PaymentMethodOf(UUIDString(userID)) : userID \in {101, 102}}

OwnInvoiceRequests ==
    {Discounted(InvoiceRequest(UUIDString(sender), UUIDString(201),
                               UUIDString(method), "draft", "2024-01-15",
                               "2024-02-15", 9000000, <<Design>>)) :
        sender \in {101, 102}, method \in {301, 302}}

OwnIdentifiers == {UUIDString(invoiceID) : invoiceID \in InvoiceIDs}

NextOwn ==
    \E p \in {"r1"} :
        \/ HandlerCreateUser(p, Ben)
        \/ \E body \in OwnPaymentMethodRequests : HandlerAddPaymentMethod(p, body)
        \/ \E body \in OwnInvoiceRequests : HandlerCreateInvoice(p, body)
        \/ \E invoiceID \in OwnIdentifiers : HandlerGetInvoiceDetails(p, invoiceID)
        \/ RepoStep(p)

SpecOwn == InitSeeded /\ [][NextOwn]_vars

(***************************************************************************)
(* SpecAct: two requests at a time against the seeded database, one        *)
(* creating invoices (the second names a payment method nobody has         *)
(* registered and is rolled back), the other adding activities under the   *)
(* identifiers the creations draw, for a stored user and for an unknown    *)
(* one.                                                                    *)
(***************************************************************************)
ActInvoiceRequests ==
    {InvoiceRequest(UUIDString(101), UUIDString(201), method, "draft",
                    "2024-01-15", "2024-02-15", 2500000, <<Design>>) :
        method \in {UUIDString(301), UUIDString(302)}}

ActActivityRequests ==
    {ActivityRequest(UUIDString(invoiceID), UUIDString(userID)) :
        invoiceID \in InvoiceIDs, userID \in {101, 102}}

NextAct ==
    \E p \in Procs :
        \/ \E data \in ActInvoiceRequests : SvcCreateInvoice(p, data)
        \/ \E data \in ActActivityRequests : SvcAddInvoiceActivity(p, data)
        \/ RepoBegin(p)
        \/ RepoInsertInvoice(p)
        \/ RepoInsertItem(p)
        \/ RepoInsertPaymentInfo(p)
        \/ RepoInsertActivity(p)
        \/ RepoInsertRecentActivity(p)
        \/ RepoCommit(p)
        \/ RepoCreateInvoiceFails(p)
        \/ Return(p)

SpecAct == InitSeeded /\ [][NextAct]_vars

(***************************************************************************)
(* SpecShared: one client against the seeded database who registers a      *)
(* second user, creates an invoice, records activities on it as either     *)
(* user, and reads the invoice's activities both ways.                     *)
(***************************************************************************)
SharedInvoiceRequests ==
    {InvoiceRequest(UUIDString(101), UUIDString(201), UUIDString(301), "draft",
                    "2024-01-15", "2024-02-15", 2500000, <<Design>>)}

SharedUsers == {101, 102}
SharedActivityRequests ==
    {ActivityRequest(UUIDString(401), UUIDString(userID)) : userID \in SharedUsers}

NextShared ==
    \E p \in {"r1"} :
        \/ SvcCreateUser(p, Ben)
        \/ \E data \in SharedInvoiceRequests : SvcCreateInvoice(p, data)
        \/ \E data \in SharedActivityRequests : SvcAddInvoiceActivity(p, data)
        \/ SvcGetInvoiceDetails(p, 401)
        \/ \E userID \in SharedUsers, page \in Pages, limit \in Limits :
              SvcGetInvoiceActivities(p, userID, 401, page, limit)
        \/ RepoStep(p)

SpecShared == InitSeeded /\ [][NextShared]_vars

(***************************************************************************)
(* SpecPages: two clients against the seeded database who create invoices  *)
(* side by side and page through the sender's invoices and recent          *)
(* activities.  A list is read while no creation is under way, and no      *)
(* creation starts while a client holds a page, so that the pages two      *)
(* clients hold at one time were read with no write in between.            *)
(***************************************************************************)
PageNumbers == {1, 2, 3, 2147483647}
PageLimits == {1, 2}

PageHeld(p) == pc[p] = "done" /\ req[p].op \in {"GetRecentInvoices", "GetRecentActivities"}

NextPages ==
    \E p \in Procs :
        \/ /\ \A q \in Procs \ {p} : ~PageHeld(q)
           /\ \E data \in SharedInvoiceRequests : SvcCreateInvoice(p, data)
        \/ /\ \A q \in Procs \ {p} : pc[q] \in {"idle", "done"}
           /\ \E page \in PageNumbers, limit \in PageLimits :
                 \/ SvcGetRecentInvoices(p, 101, page, limit)
                 \/ SvcGetRecentActivities(p, 101, page, limit)
        \/ RepoBegin(p)
        \/ RepoInsertInvoice(p)
        \/ RepoInsertItem(p)
        \/ RepoInsertPaymentInfo(p)
        \/ RepoInsertActivity(p)
        \/ RepoInsertRecentActivity(p)
        \/ RepoCommit(p)
        \/ RepoCreateInvoiceFails(p)
        \/ Return(p)

SpecPages == InitSeeded /\ [][NextPages]_vars

(***************************************************************************)
(* Properties.                                                             *)
(***************************************************************************)
IsCreate(p) == req[p].op = "CreateInvoice"

\* Request p takes a step of its repository CreateInvoice.
CreateStep(p) ==
    /\ pc[p] \in TxSteps
    /\ pc'[p] # pc[p] \/ loc'[p] # loc[p]

\* ... and the step makes the call return an error.
CreateFails(p) ==
    /\ pc[p] \in TxSteps
    /\ pc'[p] = "done"
    /\ ret'[p].err # NoError

\* ... and the step makes the call return without one.
CreateSucceeds(p) ==
    /\ pc[p] \in TxSteps
    /\ pc'[p] = "done"
    /\ ret'[p].err = NoError

\* The rows that step adds to a table.
Added(table) == db'[table] \ db[table]

\* C1: a repository CreateInvoice that fails, at whichever statement,
\* leaves every table as it was: no statement of the call before the
\* failure changed the stored rows, the failing step does not either, and
\* when the call has returned no stored row carries an identifier drawn for
\* it.
C1_FailedCreateLeavesNoRows ==
    [][\A p \in Procs :
          /\ (CreateStep(p) /\ ~CreateSucceeds(p)) => db' = db
          /\ CreateFails(p) =>
                /\ ret'[p].id = NilUUID
                /\ KeysOf(db') \cap held'[p] = {}
                /\ tx'[p] = NoTx]_vars

\* A creation failed at the payment-information insert, after its invoice
\* row and both items had been written in the transaction.
C1_Witness ==
    \E p \in Procs :
        /\ pc[p] = "done"
        /\ IsCreate(p)
        /\ ret[p].err = ErrForeignKey
        /\ loc[p].at = "ci_payment"
        /\ Len(arg[p].items) = 2
        /\ db = SeedDB

\* C2: the step that makes CreateInvoice succeed with N line items adds
\* one invoices row, N invoice_items rows of that invoice, one
\* payment_information row linking it to the requested payment method, one
\* invoice_activities row titled "Invoice Creation" by the sender and one
\* recent_activities row of the sender, removes nothing, touches no other
\* table, and returns the invoice row's identifier; no earlier step of the
\* call changes the stored rows.
C2_CreateAddsExactlyItsRows ==
    [][\A p \in Procs :
          /\ (CreateStep(p) /\ ~CreateSucceeds(p)) => db' = db
          /\ CreateSucceeds(p) =>
                LET id == ret'[p].id
                    sender == ParseUUID(req[p].Invoice.SenderID).id
                    method == ParseUUID(req[p].PaymentMethodID).id
                IN  /\ id # NilUUID
                    /\ \A t \in TableNames : db[t] \subseteq db'[t]
                    /\ Cardinality(Added("invoices")) = 1
                    /\ \A r \in Added("invoices") : r.invoice_id = id
                    /\ Cardinality(Added("invoice_items")) = Len(req[p].InvoiceItems)
                    /\ \A r \in Added("invoice_items") : r.invoice_id = id
                    /\ Cardinality(Added("payment_information")) = 1
                    /\ \A r \in Added("payment_information") :
                          r.invoice_id = id /\ r.payment_method_id = method
                    /\ Cardinality(Added("invoice_activities")) = 1
                    /\ \A r \in Added("invoice_activities") :
                          /\ r.invoice_id = id
                          /\ r.title = "Invoice Creation"
                          /\ r.user_id = sender
                    /\ Cardinality(Added("recent_activities")) = 1
                    /\ \A r \in Added("recent_activities") : r.user_id = sender
                    /\ Added("users") = {}
                    /\ Added("customers") = {}
                    /\ Added("user_payment_methods") = {}]_vars

\* A creation with two line items has succeeded, and its rows are stored.
C2_Witness ==
    \E p \in Procs :
        /\ pc[p] = "done"
        /\ IsCreate(p)
        /\ ret[p].err = NoError
        /\ Len(req[p].InvoiceItems) = 2
        /\ Cardinality({r \in db.invoice_items : r.invoice_id = ret[p].id}) = 2
        /\ \E r \in db.invoice_activities :
              r.invoice_id = ret[p].id /\ r.title = "Invoice Creation"

\* The inputs the services reject: an identifier that does not parse, a
\* status outside the enum, a date that is not a calendar date written
\* YYYY-MM-DD.
Rejected(data) ==
    CASE data.op = "CreateInvoice" ->
            \/ ~data.Invoice.SenderID.wf
            \/ ~data.CustomerID.wf
            \/ ~data.PaymentMethodID.wf
            \/ data.Invoice.Status \notin {"draft", "pending", "paid", "overdue"}
            \/ ~ParseDate(data.Invoice.IssueDate).ok
            \/ ~ParseDate(data.Invoice.DueDate).ok
      [] data.op = "AddInvoiceActivity" -> ~data.InvoiceID.wf \/ ~data.UserID.wf
      [] data.op = "AddPaymentMethod" -> ~data.UserID.wf
      [] OTHER -> FALSE

\* C3: when CreateInvoice, AddInvoiceActivity or AddPaymentMethod is called
\* with an input it rejects, the call returns at once with the nil
\* identifier and an error, no repository method has been called, and the
\* stored rows and open transactions are what they were.
C3_RejectedInputTouchesNothing ==
    [][\A p \in Procs :
          (pc[p] = "idle" /\ pc'[p] # "idle" /\ Rejected(req'[p])) =>
             /\ pc'[p] = "done"
             /\ ret'[p].id = NilUUID
             /\ ret'[p].err # NoError
             /\ repoCalls'[p] = 0
             /\ arg'[p] = NoArg
             /\ db' = db
             /\ tx' = tx]_vars

\* A CreateInvoice whose only fault is the due date 2024-02-30 has been
\* rejected, with an invoice already stored.
C3_Witness ==
    \E p \in Procs :
        /\ pc[p] = "done"
        /\ IsCreate(p)
        /\ req[p].Invoice.DueDate = Chars("2024-02-30")
        /\ ret[p].err = "due date has invalid date format"
        /\ repoCalls[p] = 0
        /\ db.invoices # {}

\* The fields CreateInvoice checks, in the order of the contract.
Fields == <<"sender id", "customer id", "status", "issue date", "due date",
            "payment method id">>

Invalid(data, field) ==
    CASE field = "sender id" -> ~data.Invoice.SenderID.wf
      [] field = "customer id" -> ~data.CustomerID.wf
      [] field = "status" ->
            data.Invoice.Status \notin {"draft", "pending", "paid", "overdue"}
      [] field = "issue date" -> ~ParseDate(data.Invoice.IssueDate).ok
      [] field = "due date" -> ~ParseDate(data.Invoice.DueDate).ok
      [] field = "payment method id" -> ~data.PaymentMethodID.wf

InvalidFields(data) == {k \in DOMAIN Fields : Invalid(data, Fields[k])}

\* The request data with every field but the k-th made well-formed.
OnlyField(data, k) ==
    [data EXCEPT
       !.Invoice.SenderID = IF k = 1 THEN @ ELSE UUIDString(101),
       !.CustomerID = IF k = 2 THEN @ ELSE UUIDString(201),
       !.Invoice.Status = IF k = 3 THEN @ ELSE "draft",
       !.Invoice.IssueDate = IF k = 4 THEN @ ELSE Chars("2024-01-15"),
       !.Invoice.DueDate = IF k = 5 THEN @ ELSE Chars("2024-02-15"),
       !.PaymentMethodID = IF k = 6 THEN @ ELSE UUIDString(301)]

\* C4: a CreateInvoice request with invalid fields is answered with the
\* error of the first of them in the order sender id, customer id, status,
\* issue date, due date, payment-method id (the error the same request
\* gets when that field alone is invalid), and that error differs from the
\* error of each of its other invalid fields.
C4_FirstInvalidFieldWins ==
    [][\A p \in Procs :
          (/\ pc[p] = "idle"
           /\ pc'[p] # "idle"
           /\ req'[p].op = "CreateInvoice"
           /\ InvalidFields(req'[p]) # {}) =>
             LET first == Min(InvalidFields(req'[p]))
             IN  /\ pc'[p] = "done"
                 /\ ret'[p].err # NoError
                 /\ ret'[p].err = CreateInvoiceError(OnlyField(req'[p], first))
                 /\ \A k \in InvalidFields(req'[p]) \ {first} :
                       CreateInvoiceError(OnlyField(req'[p], k)) # ret'[p].err]_vars

\* A request with five invalid fields, the customer id the first of them,
\* has been answered with the customer id's error.
C4_Witness ==
    \E p \in Procs :
        /\ pc[p] = "done"
        /\ IsCreate(p)
        /\ InvalidFields(req[p]) = {2, 3, 4, 5, 6}
        /\ ret[p].err = "invalid customer id"

\* What GetInvoiceDetails has answered about a created invoice.
DetailsOf(p, e) ==
    /\ pc[p] = "done"
    /\ req[p].op = "GetInvoiceDetails"
    /\ req[p].InvoiceID = e.id
    /\ ret[p].err # ErrStorage

\* The counts, status and parties C5 expects of the details d of the
\* creation e.
DetailsMatch(d, e) ==
    LET U == CHOOSE u \in db.users :
                u.user_id = ParseUUID(e.data.Invoice.SenderID).id
        C == CHOOSE c \in db.customers :
                c.customer_id = ParseUUID(e.data.CustomerID).id
    IN  /\ d.Invoice.InvoiceID = e.id
        /\ Cardinality(d.Items) = Len(e.data.InvoiceItems)
        /\ \E k \in DOMAIN d.Activities : d.Activities[k].Title = "Invoice Creation"
        /\ d.Invoice.Status = e.data.Invoice.Status
        /\ d.SenderName = U.first_name \o " " \o U.last_name
        /\ d.SenderEmail = U.email
        /\ d.SenderPhoneNumber = U.phone_number
        /\ d.SenderAddress = U.address
        /\ d.CustomerName = C.name
        /\ d.CustomerEmail = C.email
        /\ d.CustomerPhoneNumber = C.phone_number

\* x is y at two decimals: a whole number of hundredths, half a hundredth
\* from y at most.
AtTwoDecimals(x, y) == x % 10 = 0 /\ x - y <= 5 /\ y - x <= 5

\* C5, as stated: GetInvoiceDetails on the identifier a creation returned
\* succeeds with N items, a creation activity, the status, the sender's
\* and the customer's fields, and the amounts as they were submitted.
C5_DetailsReturnSubmittedAmounts ==
    \A p \in Procs : \A e \in ledger :
        DetailsOf(p, e) =>
            /\ ret[p].err = NoError
            /\ DetailsMatch(ret[p].val, e)
            /\ ret[p].val.Invoice.TotalAmount = e.data.Invoice.TotalAmount
            /\ ret[p].val.Invoice.DiscountPercentage = e.data.Invoice.DiscountPercentage
            /\ ret[p].val.Invoice.DiscountedAmount = e.data.Invoice.DiscountedAmount
            /\ ret[p].val.Invoice.FinalAmount = e.data.Invoice.FinalAmount

\* C5, amended: ... and the amounts as the NUMERIC(p, 2) columns keep
\* them, which is the submitted amounts at two decimals.
C5_DetailsReturnStoredAmounts ==
    \A p \in Procs : \A e \in ledger :
        DetailsOf(p, e) =>
            /\ ret[p].err = NoError
            /\ DetailsMatch(ret[p].val, e)
            /\ AtTwoDecimals(ret[p].val.Invoice.TotalAmount,
                             e.data.Invoice.TotalAmount)
            /\ AtTwoDecimals(ret[p].val.Invoice.DiscountPercentage,
                             e.data.Invoice.DiscountPercentage)
            /\ AtTwoDecimals(ret[p].val.Invoice.DiscountedAmount,
                             e.data.Invoice.DiscountedAmount)
            /\ AtTwoDecimals(ret[p].val.Invoice.FinalAmount,
                             e.data.Invoice.FinalAmount)

\* The details of the invoice of 1.005 with two items have come back,
\* with a final amount of 1.01, while a second user is registered.
C5_Witness ==
    \E p \in Procs : \E e \in ledger :
        /\ DetailsOf(p, e)
        /\ ret[p].err = NoError
        /\ e.data.Invoice.FinalAmount = 1005
        /\ ret[p].val.Invoice.FinalAmount = 1010
        /\ Cardinality(ret[p].val.Items) = 2
        /\ Cardinality(db.users) = 2

\* The creations that returned an identifier with status s, and the
\* final amounts stored for them.
CreatedWithStatus(s) == {e \in ledger : e.data.Invoice.Status = s}

RECURSIVE SumStored(_)
SumStored(E) ==
    IF E = {} THEN 0
    ELSE LET e == CHOOSE x \in E : TRUE
             row == CHOOSE r \in db.invoices : r.invoice_id = e.id
         IN  row.final_amount + SumStored(E \ {e})

\* C6: GetTotalByStatus(s), s one of draft, pending, paid, overdue, answers
\* with the number of invoice creations of status s that returned an
\* identifier and the sum of their stored final amounts ((0, 0) when there
\* is none): creations of another status and creations that failed count
\* for nothing.
C6_TotalsCountCommittedInvoices ==
    \A p \in Procs :
        (/\ pc[p] = "done"
         /\ req[p].op = "GetTotalByStatus"
         /\ req[p].Status \in {"draft", "pending", "paid", "overdue"}
         /\ ret[p].err # ErrStorage) =>
            /\ ret[p].err = NoError
            /\ ret[p].val.count = Cardinality(CreatedWithStatus(req[p].Status))
            /\ ret[p].val.totalAmount = SumStored(CreatedWithStatus(req[p].Status))
            /\ CreatedWithStatus(req[p].Status) = {} =>
                  ret[p].val = [totalAmount |-> 0, count |-> 0]

\* The total of the two draft invoices, 9000.00 and 2500.00, has come
\* back, with a paid invoice absent or present.
C6_Witness ==
    \E p \in Procs :
        /\ pc[p] = "done"
        /\ req[p].op = "GetTotalByStatus"
        /\ req[p].Status = "draft"
        /\ ret[p].err = NoError
        /\ ret[p].val = [totalAmount |-> 11500000, count |-> 2]

PagedOps == {"GetRecentInvoices", "GetRecentActivities", "GetInvoiceActivities"}

\* C7: GetRecentInvoices, GetRecentActivities and GetInvoiceActivities
\* call the repository with the caller's limit and with the offset
\* (page - 1) * limit.
C7_OffsetIsPageMinusOneTimesLimit ==
    \A p \in Procs :
        req[p].op \in PagedOps =>
            /\ repoCalls[p] = 1
            /\ arg[p].op = req[p].op
            /\ arg[p].limit = req[p].Limit
            /\ arg[p].offset = (req[p].Page - 1) * req[p].Limit
            /\ req[p].Page = 1 => arg[p].offset = 0
            /\ (req[p].Page = 2 /\ req[p].Limit = 10) => arg[p].offset = 10
            /\ (req[p].Page = 10 /\ req[p].Limit = 10) => arg[p].offset = 90

\* GetInvoiceActivities has been called with page 10 and limit 10, and the
\* repository with offset 90.
C7_Witness ==
    \E p \in Procs :
        /\ pc[p] = "done"
        /\ req[p].op = "GetInvoiceActivities"
        /\ req[p].Page = 10
        /\ req[p].Limit = 10
        /\ arg[p].limit = 10
        /\ arg[p].offset = 90

\* C8: a GetInvoiceDetails that has returned, whatever it ran alongside,
\* has either failed with no-rows (or with the connection) or returned the
\* invoice with as many items as its creation submitted and with the
\* creation activity; and the items it holds before its third read are
\* all of them already.
C8_NoTornRead ==
    \A p \in Procs :
        /\ (pc[p] = "done" /\ req[p].op = "GetInvoiceDetails") =>
              \/ ret[p].err \in {ErrNoRows, ErrStorage}
              \/ /\ ret[p].err = NoError
                 /\ \E e \in ledger :
                       /\ e.id = req[p].InvoiceID
                       /\ ret[p].val.Invoice.InvoiceID = e.id
                       /\ Cardinality(ret[p].val.Items) = Len(e.data.InvoiceItems)
                       /\ \E k \in DOMAIN ret[p].val.Activities :
                             ret[p].val.Activities[k].Title = "Invoice Creation"
        /\ pc[p] = "gd_activities" =>
              \E e \in ledger :
                  /\ e.id = arg[p].invoiceID
                  /\ Cardinality(loc[p].details.Items) = Len(e.data.InvoiceItems)

\* A GetInvoiceDetails that was called while the invoice's creation was
\* under way has returned the invoice, with both items.
C8_Witness ==
    \E p \in Procs :
        /\ pc[p] = "done"
        /\ req[p].op = "GetInvoiceDetails"
        /\ loc[p].during
        /\ ret[p].err = NoError
        /\ Cardinality(ret[p].val.Items) = 2

\* Two CreateInvoice calls have returned, one of them called while the
\* other was under way, and neither failed on its connection.
ConcurrentCreates(p, q) ==
    /\ p # q
    /\ pc[p] = "done" /\ IsCreate(p)
    /\ pc[q] = "done" /\ IsCreate(q)
    /\ loc[p].during \/ loc[q].during
    /\ ret[p].err # ErrStorage
    /\ ret[q].err # ErrStorage

SameParties(p, q) ==
    /\ req[p].Invoice.SenderID = req[q].Invoice.SenderID
    /\ req[p].CustomerID = req[q].CustomerID

Registered(p) ==
    \E m \in db.user_payment_methods :
        m.payment_method_id = ParseUUID(req[p].PaymentMethodID).id

\* C9, as stated: concurrent CreateInvoice calls of one sender for one
\* customer, with valid inputs naming a registered payment method, each
\* receive an identifier, and the identifiers differ.
C9_ConcurrentCreatesAllSucceed ==
    \A p, q \in Procs :
        (ConcurrentCreates(p, q) /\ SameParties(p, q)
         /\ Registered(p) /\ Registered(q)) =>
            /\ ret[p].id # NilUUID
            /\ ret[q].id # NilUUID
            /\ ret[p].id # ret[q].id

\* C9, amended: each of them either receives an identifier or fails on the
\* uniqueness of the invoice number it drew, which the other has drawn
\* too; the identifiers received differ.
C9_ConcurrentCreatesDistinctOrCollide ==
    \A p, q \in Procs :
        (ConcurrentCreates(p, q) /\ SameParties(p, q)
         /\ Registered(p) /\ Registered(q)) =>
            /\ \/ ret[p].err = NoError /\ ret[p].id # NilUUID
               \/ /\ ret[p].err = ErrUnique
                  /\ ret[p].id = NilUUID
                  /\ \E r \in db.invoices :
                        r.invoice_number = arg[p].invoice.InvoiceNumber
            /\ (ret[p].err = NoError /\ ret[q].err = NoError) =>
                  /\ ret[p].id # ret[q].id
                  /\ arg[p].invoice.InvoiceNumber # arg[q].invoice.InvoiceNumber

\* Two concurrent creations have both returned an identifier.
C9_Witness ==
    \E p, q \in Procs :
        /\ ConcurrentCreates(p, q)
        /\ SameParties(p, q)
        /\ ret[p].err = NoError
        /\ ret[q].err = NoError
        /\ ret[p].id # ret[q].id

\* C10: a successful AddInvoiceActivity adds one invoice_activities row,
\* with the request's invoice id, user id, title and description, returns
\* that row's activity_id, and leaves every other table, recent_activities
\* included, as it was.
C10_AddInvoiceActivityAddsOneRow ==
    [][\A p \in Procs :
          (/\ pc[p] = "idle"
           /\ pc'[p] = "done"
           /\ req'[p].op = "AddInvoiceActivity"
           /\ ret'[p].err = NoError) =>
             /\ Cardinality(Added("invoice_activities")) = 1
             /\ db.invoice_activities \subseteq db'.invoice_activities
             /\ \A r \in Added("invoice_activities") :
                   /\ r.invoice_id = req'[p].InvoiceID.id
                   /\ r.user_id = req'[p].UserID.id
                   /\ r.title = req'[p].Title
                   /\ r.description = req'[p].Description
                   /\ r.activity_id = ret'[p].id
                   /\ r.activity_id # NilUUID
             /\ \A t \in TableNames \ {"invoice_activities"} : db'[t] = db[t]]_vars

\* An activity has been added to a stored invoice: the invoice has its
\* creation activity and the added one, and recent_activities the
\* creation's only.
C10_Witness ==
    \E p \in Procs :
        /\ pc[p] = "done"
        /\ req[p].op = "AddInvoiceActivity"
        /\ ret[p].err = NoError
        /\ Cardinality({r \in db.invoice_activities : r.invoice_id = 401}) = 2
        /\ Cardinality(db.recent_activities) = 1

(***************************************************************************)
(* C11                                                                     *)
(***************************************************************************)
\* The malformed inputs: a malformed identifier in the path or in the body,
\* a status outside the enum, a date in the wrong layout, a password too
\* long to hash.
MalformedInput(data) ==
    IF "raw" \in DOMAIN data THEN FALSE
    ELSE IF "path" \in DOMAIN data
    THEN IF data.op = "GetTotalByStatus"
         THEN data.path[1] \notin {"draft", "pending", "paid", "overdue"}
         ELSE \E k \in DOMAIN data.path : ~data.path[k].wf
    ELSE IF data.op = "CreateUser" THEN Len(data.Password) > 72
    ELSE Rejected(data)

\* C11: every request rejected because of malformed input (a malformed
\* identifier in the path or in the body, a status outside the enum, a date
\* in the wrong layout, a password too long to hash) is answered with HTTP
\* 400, and HTTP 500 is answered only when the repository was called and
\* failed.
C11_MalformedInputIsBadRequest ==
    \A p \in Procs :
        pc[p] = "done" =>
           /\ MalformedInput(req[p]) => resp[p].code = StatusBadRequest
           /\ resp[p].code = StatusInternalServerError =>
                 repoCalls[p] > 0 /\ ret[p].err # NoError

(***************************************************************************)
(* C12                                                                     *)
(***************************************************************************)
\* C12: when the first query of GetInvoiceDetails runs and finds no invoice
\* with the identifier asked for, the call returns the no-rows error as it
\* is, with a nil result, after one repository call, and the handler
\* answers 500 with that error's text; every other failure of
\* GetInvoiceDetails is answered 500 with its text in the same way.
C12_NotFoundIsInternalServerError ==
    [][\A p \in Procs :
          /\ ( /\ pc[p] = "gd_invoice"
               /\ pc'[p] = "done"
               /\ ~\E r \in db.invoices : r.invoice_id = arg[p].invoiceID
               /\ ret'[p].err # ErrStorage ) =>
                /\ ret'[p] = Result(NilUUID, ErrNoRows, <<>>)
                /\ repoCalls'[p] = 1
                /\ resp'[p] = [code |-> StatusInternalServerError,
                               error |-> ErrNoRows]
          /\ ( /\ pc[p] \in {"gd_invoice", "gd_items", "gd_activities"}
               /\ pc'[p] = "done"
               /\ ret'[p].err # NoError ) =>
                resp'[p] = [code |-> StatusInternalServerError,
                            error |-> ret'[p].err]]_vars

\* GET /v1/invoices/:invoiceID with a well-formed identifier that no invoice
\* carries has been answered, while another invoice is stored.
C12_Witness ==
    /\ pc["r1"] = "done"
    /\ req["r1"].op = "GetInvoiceDetails"
    /\ "path" \notin DOMAIN req["r1"]
    /\ db.invoices # {}
    /\ ~\E r \in db.invoices : r.invoice_id = req["r1"].InvoiceID
    /\ ret["r1"] = Result(NilUUID, ErrNoRows, <<>>)
    /\ resp["r1"].code = StatusInternalServerError

(***************************************************************************)
(* C13                                                                     *)
(***************************************************************************)
\* C13: a CreateUser that reaches the service with a password of more than
\* 72 bytes returns the nil identifier and an error without calling the
\* repository, and no row is stored; with a shorter password the repository
\* is called once with a password that is not the request's plaintext, and
\* no user row stored by the call carries the plaintext.
C13_PasswordHashedOrRefused ==
    [][\A p \in Procs :
          ( /\ pc[p] = "idle"
            /\ pc'[p] # "idle"
            /\ req'[p].op = "CreateUser"
            /\ resp'[p].code # StatusBadRequest ) =>
             IF Len(req'[p].Password) > 72
             THEN /\ ret'[p].id = NilUUID
                  /\ ret'[p].err # NoError
                  /\ repoCalls'[p] = 0
                  /\ arg'[p] = NoArg
                  /\ db' = db
             ELSE /\ repoCalls'[p] = 1
                  /\ arg'[p].user.Password # req'[p].Password
                  /\ \A r \in db'.users \ db.users :
                        r.password # req'[p].Password]_vars

\* A CreateUser with a 73-byte password has been refused, after one with a
\* 72-byte password was stored.
C13_Witness ==
    /\ pc["r1"] = "done"
    /\ req["r1"].op = "CreateUser"
    /\ Len(req["r1"].Password) = 73
    /\ ret["r1"] = Result(NilUUID, ErrPasswordTooLong, <<>>)
    /\ repoCalls["r1"] = 0
    /\ \E r \in db.users : Len(r.password) = 73 /\ r.password[1] = "$2a$10$"

(***************************************************************************)
(* C14                                                                     *)
(***************************************************************************)
\* C14: ValidateInvoiceStatus returns no error for exactly the strings
\* draft, pending, paid and overdue; for every other string, the empty
\* string, "PAID" and " paid " among them, it returns an error whose
\* message is "invalid invoice status: " followed by the string as given.
C14_ValidateInvoiceStatusAcceptsExactlyFour ==
    \A p \in Procs :
        (pc[p] = "done" /\ req[p].op = "ValidateInvoiceStatus") =>
           LET status == req[p].Status
               err == ret[p].err
           IN  /\ err = NoError <=> status \in {"draft", "pending", "paid", "overdue"}
               /\ err # NoError => err = "invalid invoice status: " \o status
               /\ status = "" => err = "invalid invoice status: "
               /\ status = "PAID" => err = "invalid invoice status: PAID"
               /\ status = " paid " => err = "invalid invoice status:  paid "

\* ValidateInvoiceStatus(" paid ") has returned its error.
C14_Witness ==
    /\ pc["r1"] = "done"
    /\ req["r1"].op = "ValidateInvoiceStatus"
    /\ req["r1"].Status = " paid "
    /\ ret["r1"].err = "invalid invoice status:  paid "

(***************************************************************************)
(* C15                                                                     *)
(***************************************************************************)
\* What a query parameter stands for: the 32-bit integer its text denotes,
\* or the default when it is absent or its text denotes none.
ExpectedParam(param, default) ==
    IF ~param.present THEN default
    ELSE CASE param.value = <<"0">> -> 0
           [] param.value = <<"2">> -> 2
           [] param.value = <<"-", "1">> -> -1
           [] param.value = Chars("-2147483648") -> -2147483647 - 1
           [] param.value = Chars("2147483647") -> 2147483647
           [] param.value = Chars("2147483648") -> default
           [] param.value = <<"a", "b", "c">> -> default
           [] param.value = <<>> -> default

\* The list request that enters the service in this step came through its
\* handler with this query.
ListRequestWith(p, query) ==
    CASE req'[p].op = "GetRecentInvoices" ->
            HandlerGetRecentInvoices(p, UUIDString(req'[p].SenderID), query)
      [] req'[p].op = "GetRecentActivities" ->
            HandlerGetRecentActivities(p, UUIDString(req'[p].UserID), query)
      [] req'[p].op = "GetInvoiceActivities" ->
            HandlerGetInvoiceActivities(p, UUIDString(req'[p].InvoiceID),
                                        UUIDString(req'[p].UserID), query)

\* C15: for every list request with well-formed identifiers,
\* getPaginationParams gives limit 10 when the limit parameter is absent or
\* is not the text of a 32-bit integer and page 1 when page is absent or is
\* not one, each whatever the other is; a parameter that is the text of an
\* integer, zero and negatives included, is given as it is, the service
\* receives these values, and the repository is called once with that limit
\* and with the offset (page - 1) * limit.
C15_PaginationDefaultsAndPassThrough ==
    [][\A p \in Procs :
          ( /\ pc[p] = "idle"
            /\ pc'[p] = "done"
            /\ req'[p].op \in {"GetRecentInvoices", "GetRecentActivities",
                               "GetInvoiceActivities"}
            /\ "path" \notin DOMAIN req'[p] ) =>
             /\ \E query \in ListQueries : ListRequestWith(p, query)
             /\ \A query \in ListQueries :
                   ListRequestWith(p, query) =>
                      LET limit == ExpectedParam(query.limit, 10)
                          page == ExpectedParam(query.page, 1)
                      IN  /\ getPaginationParams(query) =
                                [limit |-> limit, page |-> page]
                          /\ req'[p].Limit = limit
                          /\ req'[p].Page = page
                          /\ repoCalls'[p] = 1
                          /\ arg'[p].limit = limit
                          /\ arg'[p].offset = PageOffset(page, limit)]_vars

\* GET /v1/invoices/recent/:senderID?limit=-1 has been answered: the
\* repository was called with limit -1 and offset 0, and the query failed
\* on the negative LIMIT.
C15_Witness ==
    /\ pc["r1"] = "done"
    /\ req["r1"].op = "GetRecentInvoices"
    /\ "path" \notin DOMAIN req["r1"]
    /\ req["r1"].Limit = -1
    /\ req["r1"].Page = 1
    /\ arg["r1"].limit = -1
    /\ arg["r1"].offset = 0
    /\ ret["r1"].err = ErrNegativeLimit
    /\ resp["r1"].code = StatusInternalServerError

(***************************************************************************)
(* C16                                                                     *)
(***************************************************************************)
\* The inputs the service turns away before it calls the repository.
ServiceRejects(data) ==
    IF data.op = "CreateUser" THEN Len(data.Password) > 72 ELSE Rejected(data)

\* The errors the repository's statements raise.
RepositoryErrors ==
    {ErrNoRows, ErrStorage, ErrUnique, ErrForeignKey, ErrCheck, ErrNumericOverflow,
     ErrNullScan, ErrNegativeLimit, ErrNegativeOffset}

\* C16: a request that has entered the service with an input the service
\* does not turn away has made exactly one repository call, while the call
\* runs and after it has returned; when the call has failed, the service
\* has returned one of the repository's errors as it is, with the nil
\* identifier and a nil or zero value.
C16_OneRepositoryCallErrorUnchanged ==
    \A p \in Procs :
        ( /\ pc[p] # "idle"
          /\ resp[p].code # StatusBadRequest
          /\ ~ServiceRejects(req[p]) ) =>
           /\ repoCalls[p] = 1
           /\ (pc[p] = "done" /\ ret[p].err # NoError) =>
                 /\ ret[p].err \in RepositoryErrors
                 /\ ret[p].id = NilUUID
                 /\ IF req[p].op = "GetTotalByStatus"
                    THEN ret[p].val = [totalAmount |-> 0, count |-> 0]
                    ELSE ret[p].val = <<>>

\* A CreateUser with an email address already stored has returned the
\* unique-constraint error after one repository call.
C16_Witness ==
    /\ pc["r1"] = "done"
    /\ req["r1"].op = "CreateUser"
    /\ resp["r1"].code = StatusInternalServerError
    /\ repoCalls["r1"] = 1
    /\ ret["r1"] = Result(NilUUID, ErrUnique, <<>>)

(***************************************************************************)
(* C17                                                                     *)
(***************************************************************************)
\* The payment-method fields of the details when the outer join found none.
NulledPaymentMethod ==
    [PaymentMethodID |-> NilUUID, UserID |-> NilUUID, AccountName |-> "",
     AccountNumber |-> "", BankName |-> "", BankAddress |-> "", SwiftCode |-> ""]

ListOps == {"GetRecentInvoices", "GetRecentActivities", "GetInvoiceActivities"}

\* C18: the rows GetRecentInvoices, GetRecentActivities and
\* GetInvoiceActivities return are in descending creation time: no row
\* comes before a newer one; the activities in the result of
\* GetInvoiceDetails are in ascending creation time: none comes before an
\* older one.
C18_ListsNewestFirstDetailsOldestFirst ==
    \A p \in Procs :
        (pc[p] = "done" /\ resp[p].code = StatusOK) =>
           /\ req[p].op \in ListOps =>
                 \A i, j \in DOMAIN ret[p].val :
                    i < j => ret[p].val[i].CreatedAt >= ret[p].val[j].CreatedAt
           /\ req[p].op = "GetInvoiceDetails" =>
                 \A i, j \in DOMAIN ret[p].val.Activities :
                    i < j => ret[p].val.Activities[i].CreatedAt
                                <= ret[p].val.Activities[j].CreatedAt

\* GetInvoiceActivities has returned the two activities of invoice 401,
\* which were written at different times, the later one first.
C18_Witness ==
    /\ pc["r1"] = "done"
    /\ resp["r1"].code = StatusOK
    /\ req["r1"].op = "GetInvoiceActivities"
    /\ Len(ret["r1"].val) = 2
    /\ ret["r1"].val[1].CreatedAt > ret["r1"].val[2].CreatedAt
    /\ ret["r1"].val[2].Title = CreationTitle

(***************************************************************************)
(* C19                                                                     *)
(***************************************************************************)
\* C19: no step of any request modifies or removes a committed row: after
\* every step each of the eight tables holds all the rows it held before.
C19_CommittedRowsStay ==
    [][\A n \in TableNames : db[n] \subseteq db'[n]]_vars

\* Requests have committed rows to each of the eight tables, and a second
\* invoice has been committed after the first.
C19_Witness ==
    /\ \A n \in TableNames : db[n] # {}
    /\ Cardinality(db.invoices) = 2

(***************************************************************************)
(* C20                                                                     *)
(***************************************************************************)
\* The recent_activities rows logged for a committed invoice: those whose
\* activity_id is that of an invoice_activities row of the invoice.
RecentRowsOf(invoice) ==
    {r \in db.recent_activities :
        \E a \in db.invoice_activities :
            /\ a.activity_id = r.activity_id
            /\ a.invoice_id = invoice.invoice_id}

\* C20: in every reachable state the recent_activities rows and the
\* committed invoices correspond one to one: every recent row has the
\* activity id, user, title "Invoice Creation" and description of the
\* creation row of one committed invoice in invoice_activities, every
\* committed invoice has exactly one such row, and no recent row carries
\* the id of an activity added through AddInvoiceActivity.
C20_RecentActivitiesAreInvoiceCreations ==
    /\ \A r \in db.recent_activities :
          /\ r.title = CreationTitle
          /\ \E i \in db.invoices, a \in db.invoice_activities :
                /\ a.invoice_id = i.invoice_id
                /\ a.activity_id = r.activity_id
                /\ a.user_id = r.user_id
                /\ a.user_id = i.sender_id
                /\ a.title = r.title
                /\ a.description = r.description
                /\ a.description = "Created invoice " \o i.invoice_number
    /\ \A i \in db.invoices : Cardinality(RecentRowsOf(i)) = 1
    /\ Cardinality(db.recent_activities) = Cardinality(db.invoices)
    /\ \A a \in db.invoice_activities :
          a.activity_id \in AddedActivityIDs =>
             ~ \E r \in db.recent_activities : r.activity_id = a.activity_id

\* Two invoices are committed and an activity was added to one of them
\* through AddInvoiceActivity: recent_activities holds the two creations.
C20_Witness ==
    /\ Cardinality(db.invoices) = 2
    /\ Cardinality(db.recent_activities) = 2
    /\ \E a \in db.invoice_activities : a.activity_id \in AddedActivityIDs

(***************************************************************************)
(* C21                                                                     *)
(***************************************************************************)
\* The invoice numbers of the committed invoices.
StoredNumbers == {i.invoice_number : i \in db.invoices}

\* Request p is about to insert an invoice whose number is a stored one.
NumberCollides(p) ==
    /\ pc[p] = "ci_invoice"
    /\ arg[p].invoice.InvoiceNumber \in StoredNumbers

\* C21: no two committed invoices share an invoice number.  A CreateInvoice
\* whose drawn number is a stored one reaches the repository all the same
\* (the service neither checks nor redraws the number), fails at its
\* INSERT with an error of the storage layer and the nil identifier after
\* that one repository call, and leaves the tables as they were, with no
\* row under an identifier drawn for it.
C21_InvoiceNumbersUnique ==
    /\ [](\A i, j \in db.invoices : i.invoice_number = j.invoice_number => i = j)
    /\ [][\A p \in Procs :
            (NumberCollides(p) /\ pc'[p] # pc[p]) =>
               /\ pc'[p] = "done"
               /\ ret'[p].id = NilUUID
               /\ ret'[p].err \in {ErrUnique, ErrNumericOverflow, ErrCheck, ErrStorage}
               /\ repoCalls'[p] = 1
               /\ db' = db
               /\ tx'[p] = NoTx
               /\ KeysOf(db') \cap held'[p] = {}]_vars

\* A creation drew the number of a committed invoice and has failed with
\* the unique-constraint error; the committed invoice is the only one.
C21_Witness ==
    \E p \in Procs :
        /\ pc[p] = "done"
        /\ req[p].op = "CreateInvoice"
        /\ ret[p] = Result(NilUUID, ErrUnique, <<>>)
        /\ arg[p].invoice.InvoiceNumber \in StoredNumbers
        /\ arg[p].invoice.InvoiceID \notin {i.invoice_id : i \in db.invoices}
        /\ Cardinality(db.invoices) = 1

(***************************************************************************)
(* C22                                                                     *)
(***************************************************************************)
\* Every reference of a committed row leads to a committed row.
ReferencesResolve ==
    /\ \A i \in db.invoices :
          /\ \E u \in db.users : u.user_id = i.sender_id
          /\ \E c \in db.customers : c.customer_id = i.customer_id
    /\ \A it \in db.invoice_items :
          \E i \in db.invoices : i.invoice_id = it.invoice_id
    /\ \A pi \in db.payment_information :
          /\ \E i \in db.invoices : i.invoice_id = pi.invoice_id
          /\ \E m \in db.user_payment_methods :
                m.payment_method_id = pi.payment_method_id
    /\ \A a \in db.invoice_activities : \E u \in db.users : u.user_id = a.user_id
    /\ \A a \in db.recent_activities : \E u \in db.users : u.user_id = a.user_id

\* The repository's CreateInvoice of request p names a sender, a customer
\* or a payment method that is not stored.
NamesMissingParty(p) ==
    /\ pc[p] \in TxSteps
    /\ \/ ~ \E u \in db.users : u.user_id = arg[p].invoice.SenderID
       \/ ~ \E c \in db.customers : c.customer_id = arg[p].customerID
       \/ ~ \E m \in db.user_payment_methods :
               m.payment_method_id = arg[p].paymentInfo.PaymentMethodID

\* C22: in every reachable state each invoice refers to a stored user and a
\* stored customer, each item and each payment-information row to a stored
\* invoice, each payment-information row to a stored payment method and
\* each activity to a stored user.  A CreateInvoice that names a sender, a
\* customer or a payment method that is not stored never gets past the
\* payment-information insert, changes no table at any of its steps, and
\* returns an error and the nil identifier.
C22_ReferencesResolve ==
    /\ []ReferencesResolve
    /\ [][\A p \in Procs :
            NamesMissingParty(p) =>
               /\ db' = db
               /\ pc'[p] \in {"ci_begin", "ci_invoice", "ci_items", "ci_payment", "done"}
               /\ pc'[p] = "done" =>
                     /\ ret'[p].err # NoError
                     /\ ret'[p].id = NilUUID
                     /\ KeysOf(db') \cap held'[p] = {}]_vars

\* A creation named a payment method nobody has registered, with a stored
\* sender and a stored customer: it failed on the foreign key at the
\* payment-information insert, after its invoice and item inserts, and the
\* tables hold no invoice.
C22_Witness ==
    \E p \in Procs :
        /\ pc[p] = "done"
        /\ req[p].op = "CreateInvoice"
        /\ ret[p] = Result(NilUUID, ErrForeignKey, <<>>)
        /\ loc[p].at = "ci_payment"
        /\ loc[p].i > 1
        /\ \E u \in db.users : u.user_id = arg[p].invoice.SenderID
        /\ \E c \in db.customers : c.customer_id = arg[p].customerID
        /\ db.user_payment_methods = {}
        /\ db.invoices = {}
        /\ db.invoice_items = {}

(***************************************************************************)
(* C23                                                                     *)
(***************************************************************************)
\* Request p enters with an AddInvoiceActivity of well-formed identifiers
\* and is answered in this step.
ActivityAnswered(p) ==
    /\ pc[p] = "idle"
    /\ pc'[p] = "done"
    /\ req'[p].op = "AddInvoiceActivity"
    /\ AddInvoiceActivityError(req'[p]) = NoError

\* C23: an AddInvoiceActivity with well-formed identifiers succeeds only
\* when the invoice and the user it names are committed rows.  When the
\* invoice is not committed (never created, created in a transaction that
\* was rolled back, or written by a transaction still open) the call
\* returns an error and the nil identifier and invoice_activities is as it
\* was.
C23_ActivityNeedsCommittedInvoice ==
    [][\A p \in Procs :
          ActivityAnswered(p) =>
             /\ ret'[p].err = NoError =>
                   /\ \E i \in db.invoices : i.invoice_id = req'[p].InvoiceID.id
                   /\ \E u \in db.users : u.user_id = req'[p].UserID.id
             /\ (~ \E i \in db.invoices : i.invoice_id = req'[p].InvoiceID.id) =>
                   /\ ret'[p].err # NoError
                   /\ ret'[p].id = NilUUID
                   /\ db'.invoice_activities = db.invoice_activities]_vars

\* An activity was refused on the foreign key for an invoice that another
\* request's open transaction has written and not yet committed.
C23_Witness ==
    \E p, q \in Procs :
        /\ pc[p] = "done"
        /\ req[p].op = "AddInvoiceActivity"
        /\ ret[p] = Result(NilUUID, ErrForeignKey, <<>>)
        /\ \E u \in db.users : u.user_id = req[p].UserID.id
        /\ tx[q].open
        /\ \E i \in tx[q].writes.invoices : i.invoice_id = req[p].InvoiceID.id
        /\ db.invoice_activities = {}

(***************************************************************************)
(* C24                                                                     *)
(***************************************************************************)
\* The digits d[1..k] as an unsigned number; ok is FALSE when they need
\* more than 64 bits.
RECURSIVE U64Parse(_, _)
U64Parse(d, k) ==
    IF k = 0 THEN [u |-> I64Zero, ok |-> TRUE]
    ELSE LET a == U64Parse(d, k - 1)
             t == U64Times10Plus(a.u, DigitVal(d[k]))
         IN  [u |-> t.u, ok |-> a.ok /\ t.carry = 0]

\* strconv.ParseInt(s, 10, 64), as the package's tests read the result.
ParseInt64(s) ==
    LET signed == Len(s) > 0 /\ s[1] \in {"+", "-"}
        neg == Len(s) > 0 /\ s[1] = "-"
        d == IF signed THEN Tail(s) ELSE s
        m == U64Parse(d, Len(d))
    IN  IF d = <<>> \/ \E k \in DOMAIN d : d[k] \notin DigitChars
        THEN [ok |-> FALSE, n |-> I64Zero]
        ELSE IF ~m.ok \/ (neg /\ U64Less(MinInt64, m.u)) \/ (~neg /\ I64Negative(m.u))
        THEN [ok |-> FALSE, n |-> I64Zero]
        ELSE [ok |-> TRUE, n |-> IF neg THEN I64Neg(m.u) ELSE m.u]

\* A decimal numeral as FormatInt writes it: a minus sign for a negative
\* number only, and no leading zero.
IsDecimal(s) ==
    LET d == IF Len(s) > 0 /\ s[1] = "-" THEN Tail(s) ELSE s
    IN  /\ d # <<>>
        /\ \A k \in DOMAIN d : d[k] \in DigitChars
        /\ d[1] = "0" => s = <<"0">>

\* The call RandomNumber(min, max) of request p returned the decimal
\* numeral of a number of [min, max].
ReturnedWithin(p) ==
    /\ ret[p].err = NoError
    /\ IsDecimal(ret[p].val)
    /\ ParseInt64(ret[p].val).ok
    /\ I64LessEq(req[p].Min, ParseInt64(ret[p].val).n)
    /\ I64LessEq(ParseInt64(ret[p].val).n, req[p].Max)

\* C24: every call RandomNumber(min, max) with min <= max returns the
\* decimal numeral of a number r with min <= r <= max, for negative ranges,
\* 10-digit ranges and min = max alike; the call the service makes for an
\* invoice number returns ten digits.
C24_RandomNumberWithinRange ==
    \A p \in Procs :
        ( /\ pc[p] = "done"
          /\ req[p].op = "RandomNumber"
          /\ I64LessEq(req[p].Min, req[p].Max) ) =>
           /\ ReturnedWithin(p)
           /\ (req[p].Min = InvoiceNumberMin /\ req[p].Max = InvoiceNumberMax) =>
                 Len(ret[p].val) = 10

(***************************************************************************)
(* C25                                                                     *)
(***************************************************************************)
\* The handler answered request p with http.StatusBadRequest and an error,
\* and neither the service nor the repository was called for it.
Refused(p) ==
    /\ pc'[p] = "done"
    /\ resp'[p].code = StatusBadRequest
    /\ resp'[p].error # NoError
    /\ ret'[p] = NoRet
    /\ arg'[p] = NoArg
    /\ repoCalls'[p] = 0
    /\ db' = db

\* C25: on the five GET routes a path identifier that is not a UUID, or a
\* status in the path that is none of draft, pending, paid and overdue, is
\* answered with HTTP 400 and an error body, and the service is not called
\* for the request.
C25_MalformedPathIsBadRequest ==
    [][\A p \in Procs :
          pc[p] = "idle" =>
             /\ \A id \in HTTPIdentifiers :
                   ~id.wf =>
                      /\ HandlerGetInvoiceDetails(p, id) => Refused(p)
                      /\ \A query \in HTTPQueries :
                            /\ HandlerGetRecentInvoices(p, id, query) => Refused(p)
                            /\ HandlerGetRecentActivities(p, id, query) => Refused(p)
                            /\ \A other \in HTTPIdentifiers :
                                  /\ HandlerGetInvoiceActivities(p, id, other, query)
                                        => Refused(p)
                                  /\ HandlerGetInvoiceActivities(p, other, id, query)
                                        => Refused(p)
             /\ \A status \in HTTPStatuses :
                   status \notin {"draft", "pending", "paid", "overdue"} =>
                      (HandlerGetTotalByStatus(p, status) => Refused(p))]_vars

\* The details of "invalid-uuid" were asked for and refused with 400 and
\* "Invalid invoice ID", without a call of the service.
C25_Witness ==
    /\ pc["r1"] = "done"
    /\ req["r1"] = [op |-> "GetInvoiceDetails", path |-> <<BadUUID1>>]
    /\ resp["r1"] = [code |-> StatusBadRequest, error |-> "Invalid invoice ID"]
    /\ ret["r1"] = NoRet
    /\ repoCalls["r1"] = 0

(***************************************************************************)
(* C26                                                                     *)
(***************************************************************************)
\* C26: for every committed invoice, the payment method its
\* payment_information row names belongs to the invoice's sender.
C26_PaymentMethodIsTheSenders ==
    \A i \in db.invoices, pi \in db.payment_information,
       m \in db.user_payment_methods :
        ( /\ pi.invoice_id = i.invoice_id
          /\ pi.payment_method_id = m.payment_method_id ) =>
           m.user_id = i.sender_id

(***************************************************************************)
(* C27                                                                     *)
(***************************************************************************)
\* offset is the product (page - 1) * limit of the integers, for page >= 1
\* and limit >= 0; stated by division, the product itself being beyond 32
\* bits for some of the pairs.
IsProduct(offset, page, limit) ==
    /\ offset >= 0
    /\ IF limit = 0 THEN offset = 0
       ELSE offset % limit = 0 /\ offset \div limit = page - 1

\* C27: for every list request with page >= 1 and limit >= 0 the offset
\* the service hands to the repository is the product (page - 1) * limit
\* of the integers, and so is not negative.
C27_OffsetNeverWraps ==
    \A p \in Procs :
        ( /\ pc[p] = "done"
          /\ req[p].op \in ListOps
          /\ "path" \notin DOMAIN req[p]
          /\ req[p].Page >= 1
          /\ req[p].Limit >= 0 ) =>
           IsProduct(arg[p].offset, req[p].Page, req[p].Limit)

(***************************************************************************)
(* C28                                                                     *)
(***************************************************************************)
\* Request p has read the complete list GetInvoiceActivities selects from:
\* from offset 0 and with a limit no less than the number of rows.
CompleteListing(p) ==
    /\ pc[p] = "done"
    /\ req[p].op = "GetInvoiceActivities"
    /\ "path" \notin DOMAIN req[p]
    /\ ret[p].err = NoError
    /\ arg[p].offset = 0
    /\ arg[p].limit >= Cardinality(ActivitiesOf(arg[p].userID, arg[p].invoiceID))

\* C28: the "Invoice Creation" activity of an invoice is its oldest: it is
\* the first of the activities GetInvoiceDetails returns and the last of
\* the complete GetInvoiceActivities listing of the invoice's sender,
\* whatever activities were added after the creation.
C28_CreationActivityIsOldest ==
    \A p \in Procs :
        /\ ( /\ pc[p] = "done"
             /\ req[p].op = "GetInvoiceDetails"
             /\ "path" \notin DOMAIN req[p]
             /\ ret[p].err = NoError ) =>
              /\ ret[p].val.Activities # <<>>
              /\ ret[p].val.Activities[1].Title = CreationTitle
        /\ ( /\ CompleteListing(p)
             /\ \E i \in db.invoices :
                   /\ i.invoice_id = arg[p].invoiceID
                   /\ i.sender_id = arg[p].userID ) =>
              /\ ret[p].val # <<>>
              /\ ret[p].val[Len(ret[p].val)].Title = CreationTitle


\* What the order of C28 rests on: every invoice has one "Invoice Creation"
\* activity, and it bears the least created_at of the invoice's activities.
CreationActivityIsNeverNewer ==
    /\ \A i \in db.invoices :
          Cardinality({a \in db.invoice_activities :
                          a.invoice_id = i.invoice_id /\ a.title = CreationTitle}) = 1
    /\ \A a, b \in db.invoice_activities :
          (a.invoice_id = b.invoice_id /\ a.title = CreationTitle) =>
              a.created_at <= b.created_at

\* No two activities of one invoice bear the same created_at.
ActivityTimesDiffer ==
    \A a, b \in db.invoice_activities :
        (a # b /\ a.invoice_id = b.invoice_id) => a.created_at # b.created_at

\* With activities stamped at different instants the order of C28 holds.
CreationActivityIsOldestUnlessTied ==
    /\ CreationActivityIsNeverNewer
    /\ ActivityTimesDiffer => C28_CreationActivityIsOldest


(***************************************************************************)
(* C29                                                                     *)
(***************************************************************************)
\* The activities of an invoice, whoever recorded them, as scanned.
ScannedActivities(invoiceID) ==
    {ScanActivity(r) : r \in {a \in db.invoice_activities : a.invoice_id = invoiceID}}

\* C29: GetInvoiceActivities(user, invoice) returns only activities of that
\* invoice recorded by that user (all of them when the page covers the
\* list), GetInvoiceDetails returns the invoice's activities of every user,
\* and so the former are among the latter.
C29_ListingIsTheUsersShareOfDetails ==
    \A p \in Procs :
        /\ ( /\ pc[p] = "done"
             /\ req[p].op = "GetInvoiceActivities"
             /\ ret[p].err = NoError ) =>
              /\ \A k \in DOMAIN ret[p].val :
                    /\ ret[p].val[k].UserID = arg[p].userID
                    /\ ret[p].val[k].InvoiceID = arg[p].invoiceID
                    /\ ret[p].val[k] \in ScannedActivities(arg[p].invoiceID)
              /\ (arg[p].offset = 0 /\ arg[p].limit >= Cardinality(db.invoice_activities)) =>
                    {ret[p].val[k] : k \in DOMAIN ret[p].val} =
                        {a \in ScannedActivities(arg[p].invoiceID) :
                            a.UserID = arg[p].userID}
        /\ ( /\ pc[p] = "done"
             /\ req[p].op = "GetInvoiceDetails"
             /\ ret[p].err = NoError ) =>
              /\ {ret[p].val.Activities[k] : k \in DOMAIN ret[p].val.Activities} =
                    ScannedActivities(arg[p].invoiceID)
              /\ Len(ret[p].val.Activities) =
                    Cardinality(ScannedActivities(arg[p].invoiceID))

\* A listing for one user of an invoice on which another user has recorded
\* an activity too.
C29_Witness ==
    \E p \in Procs :
        /\ pc[p] = "done"
        /\ req[p].op = "GetInvoiceActivities"
        /\ ret[p].err = NoError
        /\ ret[p].val # <<>>
        /\ \E a, b \in ScannedActivities(arg[p].invoiceID) :
              /\ a.UserID = arg[p].userID
              /\ b.UserID # arg[p].userID


(***************************************************************************)
(* C30                                                                     *)
(***************************************************************************)
\* The rows a held page was selected from.
MatchingRows(p) ==
    IF req[p].op = "GetRecentInvoices"
    THEN {r \in db.invoices : r.sender_id = arg[p].senderID}
    ELSE {r \in db.recent_activities : r.user_id = arg[p].userID}

PageType(p) ==
    IF req[p].op = "GetRecentInvoices" THEN "models.Invoice"
    ELSE "models.RecentActivity"

\* Rows (page - 1) * limit + 1 through page * limit of a list of n rows:
\* the number of rows before the page and the number of rows on it.  A
\* page with page - 1 >= n lies past the end whatever the limit is.
RowsBefore(page, limit, n) == IF page - 1 >= n THEN n ELSE (page - 1) * limit
RowsOn(page, limit, n) ==
    LET before == RowsBefore(page, limit, n)
    IN  IF before >= n THEN 0
        ELSE IF n - before < limit THEN n - before ELSE limit

\* The page request p holds is rows (page - 1) * limit + 1 through
\* page * limit of the newest-first list order.
IsPageOf(p, order) ==
    LET n == Len(order)
        before == RowsBefore(req[p].Page, req[p].Limit, n)
    IN  ret[p].val = [k \in 1..RowsOn(req[p].Page, req[p].Limit, n) |->
                         ScanAs(PageType(p), order[before + k])]

\* Two requests hold pages of the same list.
SameList(p, q) ==
    /\ PageHeld(p) /\ PageHeld(q)
    /\ ret[p].err # ErrStorage /\ ret[q].err # ErrStorage
    /\ req[p].op = req[q].op
    /\ req[p].Limit = req[q].Limit

\* C30: with no write in between and a limit >= 1, the pages 1, 2, ... of
\* a paginated list are consecutive disjoint slices of the newest-first
\* list: page p is rows (p-1)*limit+1 through p*limit, a page past the end
\* is an empty list and no error, and the pages together hold every
\* matching row once.
C30_PagesAreConsecutiveSlices ==
    /\ \A p \in Procs :
          (PageHeld(p) /\ ret[p].err # ErrStorage) =>
              /\ ret[p].err = NoError
              /\ \E order \in OrderByCreatedAtDesc(MatchingRows(p)) : IsPageOf(p, order)
    /\ \A p, q \in Procs :
          (SameList(p, q) /\ req[p].Page # req[q].Page) =>
              \E order \in OrderByCreatedAtDesc(MatchingRows(p)) :
                  IsPageOf(p, order) /\ IsPageOf(q, order)


\* No two invoices bear the same created_at (nor, then, two recent
\* activities, which are stamped with their invoices).
InvoiceTimesDiffer ==
    \A a, b \in db.invoices : a # b => a.created_at # b.created_at

\* No held page was asked with a page and a limit whose product leaves
\* 32 bits.
NoPageWraps ==
    \A p \in Procs :
        PageHeld(p) => arg[p].offset >= 0

\* With rows stamped at different instants and offsets within 32 bits the
\* pages are the slices C30 describes.
PagesAreConsecutiveSlicesUnlessTiedOrWrapped ==
    (InvoiceTimesDiffer /\ NoPageWraps) => C30_PagesAreConsecutiveSlices

=============================================================================
